---- MODULE Spec2Model ----
(***************************************************************************)
(* Ride lifecycle of the hailo client: the rider view (useRideState hook,  *)
(* rideActions, the inline and the timer-driven dashboards), the driver    *)
(* view, and the external store with its change feed.                      *)
(*                                                                         *)
(* Every await of a handler is a scheduling point: a handler is split into *)
(* the step that runs up to the store call (the store executes the call in *)
(* that step) and the step that processes the response.                    *)
(***************************************************************************)
EXTENDS Integers, Sequences, FiniteSets, TLC

\* ---------------------------------------------------------------- bounds
MaxRides == 2          \* records the store may hold
MaxFeed == 1           \* change notifications in flight to the rider view
MaxTimers == 1         \* pending timeouts of the timer-driven views

\* ------------------------------------------------------------- constants
NULL == 0              \* currentRideId = null; ride ids are 1..MaxRides
RiderId == "rider"     \* session.user.id of the rider client
OtherId == "other"     \* another rider's identity
DriverId == "driver"   \* session.user.id of the driver client
NoDriver == "none"     \* driver_id IS NULL

\* The rider views of the repository.
\*   actions : rideActions (part_000) with the useRideState hook (part_002)
\*   inline  : RiderDashboard with inline handlers (part_003, part_004)
\*   timer   : RiderDashboard that inserts and simulates the driver
\*   mock    : RiderDashboard that only simulates
Variants == {"actions", "inline", "timer", "mock"}
Realtime == {"actions", "inline"}

RideStatus == {"idle", "searching", "driverAssigned", "enRoute", "arrived",
               "inProgress", "completed"}
DriverStatus == {"offline", "online", "rideAccepted", "pickingUp",
                 "inProgress", "completed"}
StoreStatus == {"pending", "accepted", "in_progress", "completed", "cancelled"}
NonTerminal == {"pending", "accepted", "in_progress"}

VARIABLES
  rides,          \* the ride_requests table: sequence of rows, id = index,
                  \* created_at order = index order
  session,        \* the rider client has an authenticated session
  variant,        \* which rider view is running
  mounted,        \* the rider view is mounted
  rideStatus, currentRideId, pickup, dropoff,   \* useState of the rider view
  channels,       \* realtime channels opened by the rider view
  feed,           \* change notifications in flight to the rider view
  req,            \* requestRide in flight
  call,           \* cancelRide / confirmPickup / confirmDropoff in flight
  resume,         \* checkAuth (mount effect) in flight
  timers,         \* pending 3 s setTimeouts of the timer-driven views
  notice,         \* the toast emitted by the last step: its title, or its
                  \* description where the title is just "Error"
  isOnline, driverStatus, rideRequests, driverRideId,  \* useState of the driver view
  drivers,        \* the driver views in detail: driver id -> its state
  toasts, count, toastTimeouts,  \* use-toast: memoryState.toasts, the id counter,
                  \* the ids with a removal timer pending
  geo,            \* a call of calculateDestinationCoordinates: arguments, locals, result
  est             \* a call of calculateFare: arguments, the library's values, result

riderVars == <<mounted, rideStatus, currentRideId, pickup, dropoff, channels,
               feed, req, call, resume, timers>>
\* What the views' own steps never touch.
utilVars == <<toasts, count, toastTimeouts, geo, est>>
driverVars == <<isOnline, driverStatus, rideRequests, driverRideId, drivers, utilVars>>
vars == <<rides, session, variant, riderVars, notice, driverVars>>

\* ------------------------------------------------------------------ store

\* driver_location: whether the row holds a driver location
Row(rider) == [status |-> "pending", rider_id |-> rider, driver_id |-> NoDriver,
               driver_location |-> FALSE]

\* .eq('rider_id', uid).in('status', [...]).order('created_at', desc).limit(1)
ActiveRidesOf(rs, uid) ==
  {i \in 1..Len(rs) : rs[i].rider_id = uid /\ rs[i].status \in NonTerminal}

Max(S) == CHOOSE x \in S : \A y \in S : y <= x

\* A faulty query that orders by creation time ascending.
OldestActive(rs, uid) ==
  IF ActiveRidesOf(rs, uid) = {} THEN NULL
  ELSE CHOOSE x \in ActiveRidesOf(rs, uid) : \A y \in ActiveRidesOf(rs, uid) : x <= y

LatestActive(rs, uid) ==
  IF ActiveRidesOf(rs, uid) = {} THEN NULL ELSE Max(ActiveRidesOf(rs, uid))

\* .update({status}).eq('id', id): no condition on the stored status
SetStatus(rs, id, st) == [rs EXCEPT ![id].status = st]

\* A joined channel filtered on id=eq.<id> receives the UPDATE event.
Listening(chs, id) == \E c \in chs : c.ride = id /\ c.joined

\* The change feed delivers in order; at most MaxFeed notifications are in
\* flight, and a write that would add one more waits.
Room(f, chs, id) == Listening(chs, id) => Len(f) < MaxFeed

Notify(f, chs, id, st) ==
  IF Listening(chs, id) THEN Append(f, [ride |-> id, status |-> st]) ELSE f

\* ------------------------------------------------------------ rider view

\* An async call of the view: where it stands, the store's answer
\* (-1 an error, 0 no row, n > 0 the row's id) and whether the view that
\* started it is still the mounted one.
NoCall == [pc |-> "none", res |-> 0, live |-> FALSE]
Call(pc) == [pc |-> pc, res |-> 0, live |-> TRUE]
NoResume == [pc |-> "none", res |-> 0, st |-> "none"]

\* useEffect(..., [currentRideId]): cleanup of the previous channel, then a
\* new channel for the new id.
EffectChannels(chs, old, new) ==
  IF new = old THEN chs
  ELSE {c \in chs : c.origin # "effect"} \cup
       (IF new = NULL THEN {}
        ELSE {[ride |-> new, origin |-> "effect", joined |-> FALSE]})

ResumeStatus(st) ==
  CASE st = "pending" -> "searching"
    [] st = "accepted" -> "driverAssigned"
    [] st = "in_progress" -> "inProgress"
    [] OTHER -> "idle"

\* The toast module as loaded: no toast, the counter at 0, no timer; no call
\* of the geocoder or of the fare estimate.
ToastIdle == toasts = <<>> /\ count = 0 /\ toastTimeouts = {}

UtilIdle == ToastIdle /\ geo = <<>> /\ est = <<>>

\* The store is empty or holds another rider's pending request; both views
\* are in their initial useState values.
InitOf(vs) ==
  /\ rides \in {<<>>, <<Row(OtherId)>>}
  /\ session \in BOOLEAN
  /\ variant \in vs
  /\ mounted = FALSE
  /\ rideStatus = "idle" /\ currentRideId = NULL
  /\ pickup = FALSE /\ dropoff = FALSE
  /\ channels = {} /\ feed = <<>>
  /\ req = NoCall /\ call = NoCall /\ resume = NoResume
  /\ timers = 0
  /\ notice = "none"
  /\ isOnline = FALSE /\ driverStatus = "offline"
  /\ rideRequests = <<>> /\ driverRideId = NULL
  /\ drivers = <<>>
  /\ UtilIdle

\* No view is mounted and the store is empty: the utilities alone are exercised
NoViews ==
  /\ rides = <<>> /\ session = FALSE /\ variant = "actions"
  /\ mounted = FALSE
  /\ rideStatus = "idle" /\ currentRideId = NULL
  /\ pickup = FALSE /\ dropoff = FALSE
  /\ channels = {} /\ feed = <<>>
  /\ req = NoCall /\ call = NoCall /\ resume = NoResume
  /\ timers = 0
  /\ notice = "none"
  /\ isOnline = FALSE /\ driverStatus = "offline"
  /\ rideRequests = <<>> /\ driverRideId = NULL
  /\ drivers = <<>>

\* When the view offers each action: the request form is rendered while
\* idle, RideDetails renders Cancel while searching and driverAssigned,
\* Confirm Pickup in the other status of that case, enRoute, and Confirm
\* Arrival while inProgress.
RequestOffered == rideStatus = "idle"
CancelOffered == rideStatus \in {"searching", "driverAssigned"}
ConfirmPickupOffered == rideStatus = "enRoute"
ConfirmDropoffOffered == rideStatus = "inProgress"

\* The view has no store call in flight.
Quiet == req.pc = "none" /\ call.pc = "none" /\ resume.pc = "none"

\* ------------------------------------------------- rider view: lifecycle

\* The view mounts with its initial useState values; the mount effect
\* starts checkAuth.
Mount ==
  /\ ~mounted /\ resume.pc = "none"
  /\ mounted' = TRUE
  /\ resume' = IF variant = "mock" THEN NoResume
               ELSE [pc |-> "session", res |-> 0, st |-> "none"]
  /\ notice' = "none"
  /\ UNCHANGED <<rides, session, variant, rideStatus, currentRideId, pickup,
                 dropoff, channels, feed, req, call, timers, driverVars>>

\* What is left of a call when its view unmounts: setState of an unmounted
\* view does nothing, so only a requestRide that has not yet issued its
\* insert still matters.
Orphan(c, keep) == IF c.pc \in keep THEN [c EXCEPT !.live = FALSE] ELSE NoCall

\* Unmount: the state is discarded and the effect's cleanup removes the
\* effect's channel. A channel opened by checkAuth itself stays open, but its
\* callback now sets the state of a view that is gone.
Unmount ==
  /\ mounted
  /\ mounted' = FALSE
  /\ rideStatus' = "idle" /\ currentRideId' = NULL
  /\ pickup' = FALSE /\ dropoff' = FALSE
  /\ channels' = {}
  /\ feed' = <<>>
  /\ req' = Orphan(req, {"session"})
  /\ call' = NoCall
  /\ resume' = NoResume
  /\ timers' = 0
  /\ notice' = "none"
  /\ UNCHANGED <<rides, session, variant, driverVars>>

\* LocationSearch.onLocationSelect, rendered while the status is idle
setPickup ==
  /\ mounted /\ resume.pc = "none" /\ RequestOffered /\ ~pickup
  /\ pickup' = TRUE
  /\ notice' = "none"
  /\ UNCHANGED <<rides, session, variant, mounted, rideStatus, currentRideId,
                 dropoff, channels, feed, req, call, resume, timers,
                 driverVars>>

setDropoff ==
  /\ mounted /\ resume.pc = "none" /\ RequestOffered /\ ~dropoff
  /\ dropoff' = TRUE
  /\ notice' = "none"
  /\ UNCHANGED <<rides, session, variant, mounted, rideStatus, currentRideId,
                 pickup, channels, feed, req, call, resume, timers,
                 driverVars>>

\* --------------------------------------------- rider view: mount / resume

\* checkAuth up to the end of its query: getSession, then the select of this
\* rider's pending / accepted / in_progress rides, latest first, limit 1.
\* The timer view only looks at the session; the query may fail.
checkAuth ==
  /\ resume.pc = "session"
  /\ IF ~session
     THEN /\ notice' = "Not logged in"
          /\ resume' = NoResume
     ELSE /\ notice' = "none"
          /\ IF variant = "timer"
             THEN resume' = NoResume
             ELSE \/ resume' = [resume EXCEPT !.pc = "query",
                                 !.res = LatestActive(rides, RiderId),
                                 !.st = IF LatestActive(rides, RiderId) = NULL THEN "none"
                                        ELSE rides[LatestActive(rides, RiderId)].status]
                  \/ resume' = NoResume
  /\ UNCHANGED <<rides, session, variant, mounted, rideStatus, currentRideId,
                 pickup, dropoff, channels, feed, req, call, timers,
                 driverVars>>

\* setupRideSubscription(activeRide.id) called by checkAuth itself: the hook
\* of part_002 opens a channel of its own, which no cleanup removes.
ResumeChannel(chs, id) ==
  IF variant = "actions"
  THEN chs \cup {[ride |-> id, origin |-> "resume", joined |-> FALSE]}
  ELSE chs

\* checkAuth from the answer of its query on: adopt the ride it returned.
checkAuth_done ==
  /\ resume.pc = "query"
  /\ notice' = "none"
  /\ resume' = NoResume
  /\ IF resume.res = NULL
     THEN UNCHANGED <<rideStatus, currentRideId, pickup, dropoff, channels>>
     ELSE /\ currentRideId' = resume.res
          /\ pickup' = TRUE /\ dropoff' = TRUE
          /\ rideStatus' = ResumeStatus(resume.st)
          /\ channels' = ResumeChannel(
               EffectChannels(channels, currentRideId, resume.res), resume.res)
  /\ UNCHANGED <<rides, session, variant, mounted, feed, req, call,
                 timers, driverVars>>

\* ------------------------------------------------ rider view: requestRide

\* A faulty requestRide that looks only at the pickup.
LocationsMissing_PickupOnly == ~pickup

\* if (!pickup || !dropoff)
LocationsMissing == ~pickup \/ ~dropoff

\* requestRide / handleRequestRide up to its first await (or, in the mock
\* view, to its end).
requestRide ==
  /\ mounted /\ RequestOffered /\ Quiet
  /\ IF LocationsMissing
     THEN /\ notice' = "Missing Location"
          /\ UNCHANGED <<rideStatus, req, timers>>
     ELSE /\ notice' = "none"
          /\ CASE variant \in Realtime ->
                    /\ req' = Call("session")
                    /\ UNCHANGED <<rideStatus, timers>>
               [] variant = "timer" ->
                    /\ timers < MaxTimers
                    /\ rideStatus' = "searching"
                    /\ req' = Call("session")
                    /\ UNCHANGED timers
               [] variant = "mock" ->
                    /\ timers < MaxTimers
                    /\ rideStatus' = "searching"
                    /\ timers' = timers + 1
                    /\ UNCHANGED req
  /\ UNCHANGED <<rides, session, variant, mounted, currentRideId, pickup,
                 dropoff, channels, feed, call, resume, driverVars>>

\* The store's answer to .insert({... status: 'pending'}): the row, no row,
\* or an error. Without .select() no row comes back.
InsertAnswers(sel) ==
  {[rs |-> Append(rides, Row(RiderId)), res |-> IF r THEN Len(rides) + 1 ELSE 0] :
     r \in IF Len(rides) < MaxRides THEN (IF sel THEN BOOLEAN ELSE {FALSE}) ELSE {}}
  \cup {[rs |-> rides, res |-> -1]}

\* requestRide from the answer of getSession to the insert it issues.
requestRide_session ==
  /\ req.pc = "session"
  /\ IF variant \in Realtime
     THEN IF ~session
          THEN /\ notice' = "Not logged in"
               /\ req' = NoCall
               /\ UNCHANGED <<rides, rideStatus>>
          ELSE /\ notice' = "none"
               /\ rideStatus' = IF req.live THEN "searching" ELSE rideStatus
               /\ \E a \in InsertAnswers(TRUE) :
                    /\ rides' = a.rs
                    /\ req' = IF req.live THEN [req EXCEPT !.pc = "insert", !.res = a.res]
                              ELSE NoCall
     ELSE /\ notice' = "none"
          /\ UNCHANGED rideStatus
          /\ IF session
             THEN \E a \in InsertAnswers(FALSE) :
                    /\ rides' = a.rs
                    /\ req' = IF req.live THEN [req EXCEPT !.pc = "insert", !.res = a.res]
                              ELSE NoCall
             ELSE /\ rides' = rides
                  /\ req' = IF req.live THEN [req EXCEPT !.pc = "insert"] ELSE NoCall
  /\ UNCHANGED <<session, variant, mounted, currentRideId, pickup, dropoff,
                 channels, feed, call, resume, timers, driverVars>>

\* A faulty requestRide whose catch block leaves the status as it is.
requestRide_done_NoRevert ==
  /\ req.pc = "insert"
  /\ req' = NoCall
  /\ IF req.res = -1
     THEN /\ notice' = "Failed to create ride request"
          /\ UNCHANGED <<rideStatus, currentRideId, channels, timers>>
     ELSE /\ notice' = "Ride Requested"
          /\ currentRideId' = IF req.res > 0 THEN req.res ELSE currentRideId
          /\ channels' = EffectChannels(channels, currentRideId, currentRideId')
          /\ UNCHANGED <<rideStatus, timers>>
  /\ UNCHANGED <<rides, session, variant, mounted, pickup, dropoff, feed, call,
                 resume, driverVars>>

\* requestRide from the answer of the insert on; the toast follows the rpc
\* that the function awaits after setCurrentRideId.
requestRide_done ==
  /\ req.pc = "insert"
  /\ req' = NoCall
  /\ IF req.res = -1
     THEN /\ notice' = "Failed to create ride request"
          /\ rideStatus' = "idle"
          /\ UNCHANGED <<currentRideId, channels, timers>>
     ELSE IF variant \in Realtime
          THEN /\ notice' = "Ride Requested"
               /\ currentRideId' = IF req.res > 0 THEN req.res ELSE currentRideId
               /\ channels' = EffectChannels(channels, currentRideId, currentRideId')
               /\ UNCHANGED <<rideStatus, timers>>
          ELSE /\ notice' = "none"
               /\ timers' = timers + 1
               /\ UNCHANGED <<rideStatus, currentRideId, channels>>
  /\ UNCHANGED <<rides, session, variant, mounted, pickup, dropoff, feed, call, resume, driverVars>>

\* The 3 s timeout of the timer-driven views fires; nothing ever clears it.
timeout ==
  /\ timers > 0
  /\ timers' = timers - 1
  /\ rideStatus' = "driverAssigned"
  /\ notice' = "Driver Found!"
  /\ UNCHANGED <<rides, session, variant, mounted, currentRideId, pickup,
                 dropoff, channels, feed, req, call, resume, driverVars>>

\* ------------------------------------- rider view: cancel and confirm

\* .update({status: st}).eq('id', id), when the store does it: the row
\* changes and the channels filtered on it are notified.
Updated(id, st) ==
  /\ Room(feed, channels, id)
  /\ rides' = SetStatus(rides, id, st)
  /\ feed' = Notify(feed, channels, id, st)

\* cancelRide / handleCancelRide up to its await. An update the store
\* refuses changes nothing: the catch block only reports it.
cancelRide ==
  /\ mounted /\ CancelOffered /\ call.pc = "none"
  /\ IF variant \in Realtime
     THEN IF currentRideId = NULL
          THEN /\ rideStatus' = "idle"
               /\ notice' = "none"
               /\ UNCHANGED <<rides, feed, call>>
          ELSE /\ Quiet
               /\ \/ /\ Updated(currentRideId, "cancelled")
                     /\ call' = Call("cancel")
                     /\ notice' = "none"
                  \/ /\ notice' = "Failed to cancel ride"
                     /\ UNCHANGED <<rides, feed, call>>
               /\ UNCHANGED rideStatus
     ELSE /\ notice' = "Ride Cancelled"
          /\ rideStatus' = "idle"
          /\ UNCHANGED <<rides, feed, call>>
  /\ UNCHANGED <<session, variant, mounted, currentRideId, pickup, dropoff,
                 channels, req, resume, timers, driverVars>>

\* A faulty cancelRide that goes idle but keeps the ride id.
cancelRide_done_KeepId ==
  /\ call.pc = "cancel"
  /\ call' = NoCall
  /\ notice' = "Ride Cancelled"
  /\ rideStatus' = "idle"
  /\ UNCHANGED <<rides, session, variant, mounted, currentRideId, pickup,
                 dropoff, channels, feed, req, resume, timers, driverVars>>

\* cancelRide after its update succeeded.
cancelRide_done ==
  /\ call.pc = "cancel"
  /\ call' = NoCall
  /\ notice' = "Ride Cancelled"
  /\ currentRideId' = NULL
  /\ channels' = EffectChannels(channels, currentRideId, NULL)
  /\ rideStatus' = "idle"
  /\ UNCHANGED <<rides, session, variant, mounted, pickup, dropoff, feed, req,
                 resume, timers, driverVars>>

\* A faulty confirm that sets the local status before the store answers.
Confirm_Optimistic(pc, st, failed) ==
  /\ mounted /\ variant \in Realtime /\ Quiet
  /\ rideStatus' = IF pc = "pickup" THEN "inProgress" ELSE "completed"
  /\ IF currentRideId = NULL
     THEN notice' = "none" /\ UNCHANGED <<rides, feed, call>>
     ELSE \/ /\ Updated(currentRideId, st)
             /\ call' = Call(pc)
             /\ notice' = "none"
          \/ /\ notice' = failed
             /\ UNCHANGED <<rides, feed, call>>
  /\ UNCHANGED <<session, variant, mounted, currentRideId, pickup, dropoff,
                 channels, req, resume, timers, driverVars>>

\* confirmPickup / confirmDropoff of rideActions up to the await.
Confirm(pc, st, failed) ==
  /\ mounted /\ variant \in Realtime /\ Quiet
  /\ IF currentRideId = NULL
     THEN notice' = "none" /\ UNCHANGED <<rides, feed, call>>
     ELSE \/ /\ Updated(currentRideId, st)
             /\ call' = Call(pc)
             /\ notice' = "none"
          \/ /\ notice' = failed
             /\ UNCHANGED <<rides, feed, call>>
  /\ UNCHANGED <<session, variant, mounted, rideStatus, currentRideId, pickup,
                 dropoff, channels, req, resume, timers, driverVars>>

confirmPickup ==
  /\ ConfirmPickupOffered
  /\ Confirm("pickup", "in_progress", "Failed to update ride status")

confirmDropoff ==
  /\ ConfirmDropoffOffered
  /\ Confirm("dropoff", "completed", "Failed to complete ride")

\* confirmPickup / confirmDropoff after the update succeeded.
ConfirmDone(pc, st) ==
  /\ call.pc = pc
  /\ call' = NoCall
  /\ notice' = "none"
  /\ rideStatus' = st
  /\ UNCHANGED <<rides, session, variant, mounted, currentRideId, pickup,
                 dropoff, channels, feed, req, resume, timers, driverVars>>

confirmPickup_done == ConfirmDone("pickup", "inProgress")

confirmDropoff_done == ConfirmDone("dropoff", "completed")

\* handleCompleteRide: Close / Rate Driver on the completed ride
handleCompleteRide ==
  /\ mounted /\ variant \in Realtime /\ rideStatus = "completed"
  /\ currentRideId' = NULL
  /\ channels' = EffectChannels(channels, currentRideId, NULL)
  /\ rideStatus' = "idle"
  /\ notice' = "none"
  /\ UNCHANGED <<rides, session, variant, mounted, pickup, dropoff, feed, req,
                 call, resume, timers, driverVars>>

\* ------------------------------------------- rider view: change feed

\* .subscribe(): the channel joins the realtime server some time after it
\* was created; only then are changes sent to it.
subscribe ==
  /\ \E c \in channels :
       /\ ~c.joined
       /\ channels' = (channels \ {c}) \cup {[c EXCEPT !.joined = TRUE]}
  /\ notice' = "none"
  /\ UNCHANGED <<rides, session, variant, mounted, rideStatus, currentRideId,
                 pickup, dropoff, feed, req, call, resume, timers,
                 driverVars>>

\* The title of the toast of the postgres_changes callback.
PayloadNotice(st) ==
  CASE st = "accepted" -> "Driver Found!"
    [] st = "in_progress" -> "Ride Started"
    [] st = "completed" -> "Ride Completed"
    [] st = "cancelled" -> "Ride Cancelled"
    [] OTHER -> "none"

\* A faulty callback that takes an accepted ride for a driver on the way.
PayloadStatus_EnRoute(st, old) ==
  CASE st = "accepted" -> "enRoute"
    [] st = "in_progress" -> "inProgress"
    [] st = "completed" -> "completed"
    [] st = "cancelled" -> "idle"
    [] OTHER -> old

\* The status the postgres_changes callback sets for payload.new.status.
PayloadStatus(st, old) ==
  CASE st = "accepted" -> "driverAssigned"
    [] st = "in_progress" -> "inProgress"
    [] st = "completed" -> "completed"
    [] st = "cancelled" -> "idle"
    [] OTHER -> old

\* The postgres_changes callback of a channel of the view runs on the oldest
\* notification in flight; a notification whose channel is gone is dropped.
onUpdate ==
  /\ feed # <<>>
  /\ feed' = Tail(feed)
  /\ LET m == Head(feed) IN
     IF \E c \in channels : c.ride = m.ride
     THEN /\ rideStatus' = PayloadStatus(m.status, rideStatus)
          /\ currentRideId' = IF m.status = "cancelled" THEN NULL ELSE currentRideId
          /\ channels' = EffectChannels(channels, currentRideId, currentRideId')
          /\ notice' = PayloadNotice(m.status)
     ELSE /\ notice' = "none"
          /\ UNCHANGED <<rideStatus, currentRideId, channels>>
  /\ UNCHANGED <<rides, session, variant, mounted, pickup, dropoff, req, call, resume, timers, driverVars>>

\* ---------------------------------------------------------- driver view

\* .eq('status', 'pending').order('created_at', desc): ids, latest first
RECURSIVE PendingDesc(_, _)
PendingDesc(rs, n) ==
  IF n = 0 THEN <<>>
  ELSE IF rs[n].status = "pending" THEN <<n>> \o PendingDesc(rs, n - 1)
       ELSE PendingDesc(rs, n - 1)

InSeq(q, x) == \E i \in 1..Len(q) : q[i] = x

\* toggleDriverStatus of a signed-in driver: going online fetches the
\* candidates, going offline clears them. The driver modelled here uses the
\* switch only while it has no current ride.
toggleDriverStatus ==
  /\ driverRideId = NULL
  /\ IF ~isOnline
     THEN /\ isOnline' = TRUE
          /\ driverStatus' = "online"
          /\ rideRequests' = PendingDesc(rides, Len(rides))
     ELSE /\ isOnline' = FALSE
          /\ driverStatus' = "offline"
          /\ rideRequests' = <<>>
  /\ notice' = "none"
  /\ UNCHANGED <<rides, session, variant, riderVars, driverRideId, drivers, utilVars>>

\* fetchAvailableRides: the poll, the pending-rides channel, Refresh
fetchAvailableRides ==
  /\ isOnline /\ driverStatus = "online"
  /\ rideRequests' = PendingDesc(rides, Len(rides))
  /\ notice' = "none"
  /\ UNCHANGED <<rides, session, variant, riderVars, isOnline, driverStatus,
                 driverRideId, drivers, utilVars>>

\* acceptRide(ride) on a candidate of the list: the update names no status.
acceptRide ==
  /\ driverStatus = "online"
  /\ \E id \in 1..Len(rides) :
       /\ InSeq(rideRequests, id)
       /\ \/ /\ Room(feed, channels, id)
             /\ rides' = [rides EXCEPT ![id].status = "accepted",
                                       ![id].driver_id = DriverId,
                                       ![id].driver_location = TRUE]
             /\ feed' = Notify(feed, channels, id, "accepted")
             /\ driverRideId' = id
             /\ rideRequests' = <<>>
             /\ driverStatus' = "rideAccepted"
          \/ UNCHANGED <<rides, feed, driverRideId, rideRequests, driverStatus>>
  /\ notice' = "none"
  /\ UNCHANGED <<session, variant, mounted, rideStatus, currentRideId, pickup,
                 dropoff, channels, req, call, resume, timers, isOnline, drivers, utilVars>>

\* confirmPickup / completeRide of the driver
DriverUpdate(from, st, to) ==
  /\ driverStatus = from /\ driverRideId # NULL
  /\ \/ /\ Updated(driverRideId, st)
        /\ driverStatus' = to
     \/ UNCHANGED <<rides, feed, driverStatus>>
  /\ notice' = "none"
  /\ UNCHANGED <<session, variant, mounted, rideStatus, currentRideId, pickup,
                 dropoff, channels, req, call, resume, timers, isOnline,
                 rideRequests, driverRideId, drivers, utilVars>>

driverConfirmPickup ==
  DriverUpdate("rideAccepted", "in_progress", "inProgress")

completeRide ==
  DriverUpdate("inProgress", "completed", "completed")

\* resetRideState: Find New Rides on the completed ride, and the driver's
\* own channel reporting its current ride cancelled.
resetRideState ==
  /\ driverRideId # NULL
  /\ driverStatus = "completed" \/ rides[driverRideId].status = "cancelled"
  /\ driverRideId' = NULL
  /\ driverStatus' = "online"
  /\ rideRequests' = PendingDesc(rides, Len(rides))
  /\ notice' = "none"
  /\ UNCHANGED <<rides, session, variant, riderVars, isOnline, drivers, utilVars>>

\* ------------------------------------------------------- specification

\* The views that talk to the store and its change feed, with a driver.
Init == InitOf(Realtime)

Next ==
  \/ Mount \/ Unmount
  \/ setPickup \/ setDropoff
  \/ checkAuth \/ checkAuth_done
  \/ requestRide \/ requestRide_session \/ requestRide_done
  \/ cancelRide \/ cancelRide_done
  \/ confirmDropoff \/ confirmDropoff_done
  \/ handleCompleteRide
  \/ subscribe \/ onUpdate
  \/ toggleDriverStatus \/ fetchAvailableRides \/ acceptRide
  \/ driverConfirmPickup \/ completeRide \/ resetRideState

Spec == Init /\ [][Next]_vars

\* The timer-driven views.
InitTimer == InitOf(Variants \ Realtime)

NextTimer ==
  \/ Mount \/ Unmount
  \/ setPickup \/ setDropoff
  \/ checkAuth
  \/ requestRide \/ requestRide_session \/ requestRide_done \/ timeout
  \/ cancelRide

SpecTimer == InitTimer /\ [][NextTimer]_vars

\* ------------------------------------------------ driver view, in detail

\* The driver dashboards: part_000 polls the pending rides every 10 s,
\* part_001 does not, and "actions" is the dashboard of part_000 calling
\* the functions of driverActions.ts.
Driver2Id == "driver2"
DriverViews == {"dashboard", "nopoll", "actions"}

NoFetch == [pc |-> "none", list |-> <<>>]
NoDriverCall == [pc |-> "none", id |-> NULL]

\* useState of a driver dashboard before its mount effect has run, with
\* what is in flight for it: the mount query (resume), acceptRide /
\* confirmPickup / completeRide (call), fetchAvailableRides (fetch), a
\* notification of the pending-rides channel (ping) and the notifications
\* of the current-ride channel (feed).
DriverView(v, s) ==
  [view |-> v, session |-> s, mounted |-> FALSE, resume |-> NoResume,
   isOnline |-> FALSE, driverStatus |-> "offline", rideRequests |-> <<>>,
   currentRideId |-> NULL, call |-> NoDriverCall, fetch |-> NoFetch,
   ping |-> FALSE, feed |-> <<>>]

\* What no step of a driver view or of the riders' writes touches.
riderView == <<session, variant, riderVars, isOnline, driverStatus,
               rideRequests, driverRideId, utilVars>>

\* .eq('driver_id', uid).in('status', ['accepted', 'in_progress'])
DriverRidesOf(rs, d) ==
  {i \in 1..Len(rs) : rs[i].driver_id = d /\ rs[i].status \in {"accepted", "in_progress"}}

\* A faulty mount query that orders by creation time ascending.
OldestDriverRide(rs, d) ==
  IF DriverRidesOf(rs, d) = {} THEN NULL
  ELSE CHOOSE x \in DriverRidesOf(rs, d) : \A y \in DriverRidesOf(rs, d) : x <= y

\* .order('created_at', { ascending: false }).limit(1)
LatestDriverRide(rs, d) ==
  IF DriverRidesOf(rs, d) = {} THEN NULL ELSE Max(DriverRidesOf(rs, d))

\* The pending-rides effect is set up while isOnline && driverStatus === "online".
Subscribed(r) == r.mounted /\ r.isOnline /\ r.driverStatus = "online"

\* setIsOnline / setDriverStatus / setCurrentRideId: both effects depend on
\* these, so their cleanup removes the channels and what was in flight to
\* them, and the current-ride channel is opened again on the new id.
SetView(r, on, st, cur) ==
  [r EXCEPT !.isOnline = on, !.driverStatus = st, !.currentRideId = cur,
            !.feed = IF st = r.driverStatus /\ cur = r.currentRideId THEN @ ELSE <<>>,
            !.ping = IF on = r.isOnline /\ st = r.driverStatus THEN @ ELSE FALSE]

\* fetchAvailableRides up to its query: the answer is the pending rides at
\* that moment, latest first. One fetch is in flight per view; a newer one
\* supersedes it.
Fetching(r) == [r EXCEPT !.fetch = [pc |-> "query", list |-> PendingDesc(rides, Len(rides))]]

\* The current-ride channel of a mounted view, filtered on id=eq.<currentRideId>
DriverListening(r, id) == r.mounted /\ r.currentRideId = id

DriverRoom(ds, id) ==
  \A e \in DOMAIN ds : DriverListening(ds[e], id) => Len(ds[e].feed) < MaxFeed

DriverNotify(ds, id, st) ==
  [e \in DOMAIN ds |->
     IF DriverListening(ds[e], id) THEN [ds[e] EXCEPT !.feed = Append(@, st)]
     ELSE ds[e]]

\* An INSERT of a pending row reaches every pending-rides channel.
PendingNotify(ds) ==
  [e \in DOMAIN ds |-> IF Subscribed(ds[e]) THEN [ds[e] EXCEPT !.ping = TRUE] ELSE ds[e]]

\* The driver dashboard mounts: its mount effect starts checkAuth.
D_Mount ==
  \E d \in DOMAIN drivers :
    /\ ~drivers[d].mounted
    /\ drivers' = [drivers EXCEPT ![d].mounted = TRUE,
                                  ![d].resume = [pc |-> "session", res |-> 0, st |-> "none"]]
    /\ notice' = "none"
    /\ UNCHANGED <<rides, riderView>>

\* The dashboard unmounts: its state is gone, the cleanups remove both
\* channels and the interval, and answers still in flight set the state of
\* a view that is gone.
D_Unmount ==
  \E d \in DOMAIN drivers :
    /\ drivers[d].mounted
    /\ drivers' = [drivers EXCEPT ![d] = DriverView(drivers[d].view, drivers[d].session)]
    /\ notice' = "none"
    /\ UNCHANGED <<rides, riderView>>

\* checkAuth up to its query; the query may fail, and then nothing is set.
D_checkAuth ==
  \E d \in DOMAIN drivers :
    /\ drivers[d].resume.pc = "session"
    /\ IF ~drivers[d].session
       THEN /\ notice' = "Not logged in"
            /\ drivers' = [drivers EXCEPT ![d].resume = NoResume]
       ELSE /\ notice' = "none"
            /\ \/ drivers' = [drivers EXCEPT ![d].resume =
                    [pc |-> "query", res |-> LatestDriverRide(rides, d),
                     st |-> IF LatestDriverRide(rides, d) = NULL THEN "none"
                            ELSE rides[LatestDriverRide(rides, d)].status]]
               \/ drivers' = [drivers EXCEPT ![d].resume = NoResume]
    /\ UNCHANGED <<rides, riderView>>

\* checkAuth from the answer on: adopt the ride the query returned.
D_checkAuth_done ==
  \E d \in DOMAIN drivers :
    /\ drivers[d].resume.pc = "query"
    /\ drivers' = [drivers EXCEPT ![d] =
         IF drivers[d].resume.res = NULL
         THEN [drivers[d] EXCEPT !.resume = NoResume]
         ELSE [SetView(drivers[d], TRUE,
                       IF drivers[d].resume.st = "accepted" THEN "rideAccepted"
                       ELSE IF drivers[d].resume.st = "in_progress" THEN "inProgress"
                       ELSE drivers[d].driverStatus,
                       drivers[d].resume.res) EXCEPT !.resume = NoResume]]
    /\ notice' = "none"
    /\ UNCHANGED <<rides, riderView>>

\* A faulty goOnline that does not look at the session.
SignedIn_Always(r) == TRUE

SignedIn(r) == r.session

\* goOffline of driverActions.ts leaves the candidates; the dashboards
\* clear them.
OfflineRequests(r) == IF r.view = "actions" THEN r.rideRequests ELSE <<>>

\* toggleDriverStatus: the Switch is rendered in every status. The driver
\* modelled here uses it once the mount query has been answered.
D_toggleDriverStatus ==
  \E d \in DOMAIN drivers :
    /\ drivers[d].mounted /\ drivers[d].resume.pc = "none"
    /\ IF ~drivers[d].isOnline
       THEN IF ~SignedIn(drivers[d])
            THEN /\ notice' = "Not logged in"
                 /\ UNCHANGED drivers
            ELSE /\ notice' = "You're Online"
                 /\ drivers' = [drivers EXCEPT ![d] =
                      Fetching(SetView(drivers[d], TRUE, "online", drivers[d].currentRideId))]
       ELSE /\ notice' = "You're Offline"
            /\ drivers' = [drivers EXCEPT ![d] =
                 [SetView(drivers[d], FALSE, "offline", drivers[d].currentRideId)
                    EXCEPT !.rideRequests = OfflineRequests(drivers[d])]]
    /\ UNCHANGED <<rides, riderView>>

\* fetchAvailableRides up to its query, or its query failing.
D_fetch(d) ==
  \/ /\ notice' = "none"
     /\ drivers' = [drivers EXCEPT ![d] = Fetching(drivers[d])]
  \/ /\ notice' = "Failed to fetch ride requests."
     /\ UNCHANGED drivers

\* Refresh is rendered while the status is online and the list is empty.
D_fetchAvailableRides ==
  \E d \in DOMAIN drivers :
    /\ drivers[d].mounted /\ drivers[d].driverStatus = "online"
    /\ drivers[d].rideRequests = <<>>
    /\ D_fetch(d)
    /\ UNCHANGED <<rides, riderView>>

\* setInterval(..., 10000) of part_000's pending-rides effect
D_poll ==
  \E d \in DOMAIN drivers :
    /\ Subscribed(drivers[d]) /\ drivers[d].view # "nopoll"
    /\ D_fetch(d)
    /\ UNCHANGED <<rides, riderView>>

\* The callback of the pending-rides channel: refetch.
D_onPending ==
  \E d \in DOMAIN drivers :
    /\ drivers[d].ping
    /\ D_fetch(d)
    /\ UNCHANGED <<rides, riderView>>

\* A notification of the pending-rides channel that never arrives.
D_pendingLost ==
  \E d \in DOMAIN drivers :
    /\ drivers[d].ping
    /\ drivers' = [drivers EXCEPT ![d].ping = FALSE]
    /\ notice' = "none"
    /\ UNCHANGED <<rides, riderView>>

\* fetchAvailableRides from the answer on: setRideRequests, whatever the
\* status is by now.
D_fetchAvailableRides_done ==
  \E d \in DOMAIN drivers :
    /\ drivers[d].fetch.pc = "query"
    /\ drivers' = [drivers EXCEPT ![d].rideRequests = drivers[d].fetch.list,
                                  ![d].fetch = NoFetch]
    /\ notice' = "none"
    /\ UNCHANGED <<rides, riderView>>

\* A faulty acceptRide that writes the status only.
AcceptedRow_NoDriver(row, d) == [row EXCEPT !.status = "accepted"]

\* .update({driver_id, status: 'accepted', driver_location}).eq('id', ride.id)
AcceptedRow(row, d) ==
  [row EXCEPT !.status = "accepted", !.driver_id = d, !.driver_location = TRUE]

\* acceptRide(ride) up to the answer of its update: the candidates are
\* rendered with Accept while the status is online.
D_acceptRide ==
  \E d \in DOMAIN drivers :
    /\ drivers[d].mounted /\ drivers[d].driverStatus = "online"
    /\ drivers[d].call.pc = "none"
    /\ \E id \in 1..Len(rides) :
         /\ InSeq(drivers[d].rideRequests, id)
         /\ IF ~drivers[d].session
            THEN /\ notice' = "Not logged in"
                 /\ UNCHANGED <<rides, drivers>>
            ELSE \/ /\ DriverRoom(drivers, id)
                    /\ rides' = [rides EXCEPT ![id] = AcceptedRow(rides[id], d)]
                    /\ drivers' = DriverNotify(
                         [drivers EXCEPT ![d].call = [pc |-> "accept", id |-> id]],
                         id, "accepted")
                    /\ notice' = "none"
                 \/ /\ notice' = "Failed to accept ride"
                    /\ UNCHANGED <<rides, drivers>>
    /\ UNCHANGED riderView

\* acceptRide from the answer of its update on
D_acceptRide_done ==
  \E d \in DOMAIN drivers :
    /\ drivers[d].call.pc = "accept"
    /\ drivers' = [drivers EXCEPT ![d] =
         [SetView(drivers[d], drivers[d].isOnline, "rideAccepted", drivers[d].call.id)
            EXCEPT !.rideRequests = <<>>, !.call = NoDriverCall]]
    /\ notice' = "Ride Accepted"
    /\ UNCHANGED <<rides, riderView>>

\* A faulty declineRide that drops the whole list.
Declined_All(q, id) == <<>>

\* rideRequests.filter((ride) => ride.id !== rideId)
Declined(q, id) == SelectSeq(q, LAMBDA x : x # id)

D_declineRide ==
  \E d \in DOMAIN drivers :
    /\ drivers[d].mounted /\ drivers[d].driverStatus = "online"
    /\ \E id \in 1..Len(rides) :
         /\ InSeq(drivers[d].rideRequests, id)
         /\ drivers' = [drivers EXCEPT ![d].rideRequests = Declined(@, id)]
    /\ notice' = "Ride request declined"
    /\ UNCHANGED <<rides, riderView>>

\* The id a confirmPickup / completeRide of driver d writes to: the current
\* ride id as it was when the button was pressed
WriteId(d) ==
  IF drivers[d].call.pc = "none" THEN drivers[d].currentRideId ELSE drivers[d].call.id

\* A faulty update that reports its error and moves on all the same.
DriverWrite_Optimistic(d, pc, st, failed) ==
  \/ /\ DriverRoom(drivers, WriteId(d))
     /\ rides' = SetStatus(rides, WriteId(d), st)
     /\ drivers' = DriverNotify(
          [drivers EXCEPT ![d].call = [pc |-> pc, id |-> WriteId(d)]], WriteId(d), st)
     /\ notice' = "none"
  \/ /\ notice' = failed
     /\ drivers' = [drivers EXCEPT ![d].call = [pc |-> pc, id |-> WriteId(d)]]
     /\ UNCHANGED rides

\* confirmPickup / completeRide from the update to its answer: the update
\* goes through, or it fails and the function ends with the error toast
DriverWrite(d, pc, st, failed) ==
  \/ /\ DriverRoom(drivers, WriteId(d))
     /\ rides' = SetStatus(rides, WriteId(d), st)
     /\ drivers' = DriverNotify(
          [drivers EXCEPT ![d].call = [pc |-> pc, id |-> WriteId(d)]], WriteId(d), st)
     /\ notice' = "none"
  \/ /\ notice' = failed
     /\ drivers' = [drivers EXCEPT ![d].call = NoDriverCall]
     /\ UNCHANGED rides

\* The position of a call that waits before its update
Delayed(pc) == IF pc = "pickup" THEN "pickup_delay" ELSE "complete_delay"

\* driverActions.ts awaits 500 ms before the update: the call is in flight
\* with the id it was given, and nothing is written yet. The dashboards'
\* own confirmPickup / completeRide issue the update at once.
DriverPress(d, pc, st, failed) ==
  IF drivers[d].view = "actions"
  THEN /\ drivers' = [drivers EXCEPT ![d].call =
                        [pc |-> Delayed(pc), id |-> drivers[d].currentRideId]]
       /\ notice' = "none"
       /\ UNCHANGED rides
  ELSE DriverWrite(d, pc, st, failed)

\* The ride card is rendered while there is a current ride; Confirm Pickup
\* while the status is rideAccepted.
D_confirmPickup ==
  \E d \in DOMAIN drivers :
    /\ drivers[d].mounted /\ drivers[d].driverStatus = "rideAccepted"
    /\ drivers[d].currentRideId # NULL /\ drivers[d].call.pc = "none"
    /\ DriverPress(d, "pickup", "in_progress", "Failed to update ride status")
    /\ UNCHANGED riderView

\* confirmPickup of driverActions.ts after its delay: the update is issued
D_confirmPickup_write ==
  \E d \in DOMAIN drivers :
    /\ drivers[d].call.pc = Delayed("pickup")
    /\ DriverWrite(d, "pickup", "in_progress", "Failed to update ride status")
    /\ UNCHANGED riderView

\* Complete Ride is rendered while the status is inProgress.
D_completeRide ==
  \E d \in DOMAIN drivers :
    /\ drivers[d].mounted /\ drivers[d].driverStatus = "inProgress"
    /\ drivers[d].currentRideId # NULL /\ drivers[d].call.pc = "none"
    /\ DriverPress(d, "complete", "completed", "Failed to complete ride")
    /\ UNCHANGED riderView

\* completeRide of driverActions.ts after its delay: the update is issued
D_completeRide_write ==
  \E d \in DOMAIN drivers :
    /\ drivers[d].call.pc = Delayed("complete")
    /\ DriverWrite(d, "complete", "completed", "Failed to complete ride")
    /\ UNCHANGED riderView

\* confirmPickup / completeRide from the answer of the update on
D_Write_done(d, pc, st) ==
  /\ drivers[d].call.pc = pc
  /\ drivers' = [drivers EXCEPT ![d] =
       [SetView(drivers[d], drivers[d].isOnline, st, drivers[d].currentRideId)
          EXCEPT !.call = NoDriverCall]]
  /\ notice' = "none"
  /\ UNCHANGED <<rides, riderView>>

D_confirmPickup_done == \E d \in DOMAIN drivers : D_Write_done(d, "pickup", "inProgress")

D_completeRide_done == \E d \in DOMAIN drivers : D_Write_done(d, "complete", "completed")

\* resetRideState: no current ride, status online, refetch
Reset(r) == Fetching(SetView(r, r.isOnline, "online", NULL))

\* Find New Rides, rendered on the ride card while the status is completed
D_resetRideState ==
  \E d \in DOMAIN drivers :
    /\ drivers[d].mounted /\ drivers[d].driverStatus = "completed"
    /\ drivers[d].currentRideId # NULL
    /\ drivers' = [drivers EXCEPT ![d] = Reset(drivers[d])]
    /\ notice' = "none"
    /\ UNCHANGED <<rides, riderView>>

\* A faulty callback that ignores a cancellation.
OnRideUpdate_KeepCancelled(r, st) == r

\* The callback of the current-ride channel, on payload.new.status
OnRideUpdate(r, st) ==
  IF st = "in_progress" /\ r.driverStatus = "rideAccepted"
  THEN SetView(r, r.isOnline, "inProgress", r.currentRideId)
  ELSE IF st = "completed"
  THEN SetView(r, r.isOnline, "completed", r.currentRideId)
  ELSE IF st = "cancelled" THEN Reset(r)
  ELSE r

D_onUpdate ==
  \E d \in DOMAIN drivers :
    /\ drivers[d].feed # <<>>
    /\ drivers' = [drivers EXCEPT ![d] =
         OnRideUpdate([drivers[d] EXCEPT !.feed = Tail(@)], Head(drivers[d].feed))]
    /\ notice' = IF Head(drivers[d].feed) = "cancelled" THEN "Ride Cancelled" ELSE "none"
    /\ UNCHANGED <<rides, riderView>>

\* The riders, as the drivers see them: a rider inserts a pending request,
\* cancels a ride that is pending or accepted, and confirms the arrival of a
\* ride in progress. No rider view offers Confirm Pickup.
R_insert ==
  /\ Len(rides) < MaxRides
  /\ rides' = Append(rides, Row(RiderId))
  /\ drivers' = PendingNotify(drivers)
  /\ notice' = "none"
  /\ UNCHANGED riderView

RiderWrites == {<<"pending", "cancelled">>, <<"accepted", "cancelled">>,
                <<"in_progress", "completed">>}

R_update ==
  /\ \E id \in 1..Len(rides), w \in RiderWrites :
       /\ rides[id].status = w[1]
       /\ DriverRoom(drivers, id)
       /\ rides' = SetStatus(rides, id, w[2])
       /\ drivers' = DriverNotify(drivers, id, w[2])
  /\ notice' = "none"
  /\ UNCHANGED riderView

\* One driver dashboard of any kind, signed in or not, and the riders.
InitDriver ==
  /\ rides = <<>>
  /\ session = FALSE /\ variant = "actions"
  /\ mounted = FALSE
  /\ rideStatus = "idle" /\ currentRideId = NULL
  /\ pickup = FALSE /\ dropoff = FALSE
  /\ channels = {} /\ feed = <<>>
  /\ req = NoCall /\ call = NoCall /\ resume = NoResume
  /\ timers = 0
  /\ notice = "none"
  /\ isOnline = FALSE /\ driverStatus = "offline"
  /\ rideRequests = <<>> /\ driverRideId = NULL
  /\ drivers \in {[d \in {DriverId} |-> DriverView(v, s)] : v \in DriverViews, s \in BOOLEAN}
  /\ UtilIdle

NextDriver ==
  \/ D_Mount \/ D_Unmount
  \/ D_checkAuth \/ D_checkAuth_done
  \/ D_toggleDriverStatus
  \/ D_fetchAvailableRides \/ D_poll \/ D_onPending \/ D_pendingLost
  \/ D_fetchAvailableRides_done
  \/ D_acceptRide \/ D_acceptRide_done
  \/ D_declineRide
  \/ D_confirmPickup \/ D_confirmPickup_write \/ D_confirmPickup_done
  \/ D_completeRide \/ D_completeRide_write \/ D_completeRide_done
  \/ D_resetRideState
  \/ D_onUpdate
  \/ R_insert \/ R_update

SpecDriver == InitDriver /\ [][NextDriver]_vars

\* Two signed-in drivers on the dashboard of part_000, and the riders.
InitRace ==
  /\ rides = <<>>
  /\ session = FALSE /\ variant = "actions"
  /\ mounted = FALSE
  /\ rideStatus = "idle" /\ currentRideId = NULL
  /\ pickup = FALSE /\ dropoff = FALSE
  /\ channels = {} /\ feed = <<>>
  /\ req = NoCall /\ call = NoCall /\ resume = NoResume
  /\ timers = 0
  /\ notice = "none"
  /\ isOnline = FALSE /\ driverStatus = "offline"
  /\ rideRequests = <<>> /\ driverRideId = NULL
  /\ drivers = [d \in {DriverId, Driver2Id} |-> DriverView("dashboard", TRUE)]
  /\ UtilIdle

\* The steps of an accept race: the drivers mount, go online, accept, confirm
\* the pickup and process what their channels report.
NextRace ==
  \/ D_Mount
  \/ D_checkAuth \/ D_checkAuth_done
  \/ D_toggleDriverStatus
  \/ D_fetchAvailableRides_done
  \/ D_acceptRide \/ D_acceptRide_done
  \/ D_confirmPickup \/ D_confirmPickup_done
  \/ D_onUpdate
  \/ R_insert

SpecRace == InitRace /\ [][NextRace]_vars

\* ------------------------------------------------------------ use-toast

TOAST_LIMIT == 5

\* Toasts added in one run of the model
MaxToasts == 7

\* The views and the store; everything but the toast module
viewVars == <<rides, session, variant, riderVars, notice, isOnline, driverStatus,
              rideRequests, driverRideId, drivers>>
appVars == <<viewVars, geo, est>>

\* q.slice(-n)
LastN(q, n) == IF Len(q) <= n THEN q ELSE SubSeq(q, Len(q) - n + 1, Len(q))

\* A faulty ADD_TOAST that puts the new toast first and keeps the first
\* TOAST_LIMIT.
Added_Prepend(q, t) == SubSeq(<<t>> \o q, 1, IF Len(q) + 1 <= TOAST_LIMIT THEN Len(q) + 1 ELSE TOAST_LIMIT)

\* ADD_TOAST: [...state.toasts, toast].slice(-TOAST_LIMIT)
Added(q, t) == LastN(Append(q, t), TOAST_LIMIT)

\* A faulty DISMISS_TOAST that drops the toast at once.
Dismissed_Dropped(q, ids) == SelectSeq(q, LAMBDA t : t.id \notin ids)

\* DISMISS_TOAST: state.toasts.map(t => ... {...t, open: false})
Dismissed(q, ids) ==
  [i \in 1..Len(q) |-> IF q[i].id \in ids THEN [q[i] EXCEPT !.open = FALSE] ELSE q[i]]

\* REMOVE_TOAST: state.toasts.filter(t => t.id !== toastId)
Removed(q, id) == SelectSeq(q, LAMBDA t : t.id # id)

ToastIds(q) == {q[i].id : i \in 1..Len(q)}

\* toast(props): genId and ADD_TOAST with open: true
T_toast ==
  /\ count < MaxToasts
  /\ count' = count + 1
  /\ toasts' = Added(toasts, [id |-> count + 1, open |-> TRUE])
  /\ UNCHANGED <<toastTimeouts, appVars>>

\* useToast().dismiss(toastId): the removal timer is set for the id given,
\* whether or not a toast has it.
T_dismiss ==
  /\ \E id \in 1..count :
       /\ toastTimeouts' = toastTimeouts \cup {id}
       /\ toasts' = Dismissed(toasts, {id})
  /\ UNCHANGED <<count, appVars>>

\* DISMISS_TOAST without an id, as toast()'s own dismiss and onOpenChange
\* dispatch it: every toast of the queue is dismissed.
T_dismissAll ==
  /\ toasts # <<>>
  /\ toastTimeouts' = toastTimeouts \cup ToastIds(toasts)
  /\ toasts' = Dismissed(toasts, ToastIds(toasts))
  /\ UNCHANGED <<count, appVars>>

\* A removal timer fires TOAST_REMOVE_DELAY after it was set: REMOVE_TOAST
T_remove ==
  /\ \E id \in toastTimeouts :
       /\ toastTimeouts' = toastTimeouts \ {id}
       /\ toasts' = Removed(toasts, id)
  /\ UNCHANGED <<count, appVars>>

InitToast == InitOf({"actions"}) /\ rides = <<>> /\ ~session

NextToast == T_toast \/ T_dismiss \/ T_dismissAll \/ T_remove

SpecToast == InitToast /\ [][NextToast]_vars

(***************************************************************************)
(* calculateDestinationCoordinates (locationUtils, part_003 117-138).      *)
(* Coordinates and offsets are counted in units of 0.00001 degree, so      *)
(* (x / 100) * 0.015 + 0.005 is 15 * x + 500.  The hash is a signed 32-bit *)
(* value; the shift and the subtraction are carried out on its two 16-bit  *)
(* halves so that no intermediate value leaves the 32-bit range.           *)
(***************************************************************************)

\* Bounds: the longest destination name, and the number of calls made
MaxLen == 5
MaxCalls == 2

\* String.charCodeAt yields UTF-16 code units: 'A', 'z' and the largest unit
CharCodes == {65, 122, 65535}

Names == UNION {[1..n -> CharCodes] : n \in 0..MaxLen}

\* Pickup points [lng, lat]: the origin and one in the city the app serves
Pickups == {<<0, 0>>, <<7759460, 1297160>>}

Half == 65536

\* The upper and lower 16 bits of a signed 32-bit value, each in 0..65535
Hi(h) == (h \div Half) % Half
Lo(h) == h % Half

\* ToInt32 of hi * 2^16 + lo : hash & hash
ToInt32(hi, lo) == IF hi >= Half \div 2 THEN (hi - Half) * Half + lo ELSE hi * Half + lo

\* JavaScript's a % b for b > 0: the remainder takes the sign of a
Rem(a, b) == IF a >= 0 \/ a % b = 0 THEN a % b ELSE (a % b) - b

\* Math.abs
Abs(x) == IF x < 0 THEN -x ELSE x

\* hash >> k, the arithmetic shift
Sar(h, k) == h \div (2 ^ k)

\* let hash = 0, at every call
StartHash_Kept(h) == h

StartHash(h) == 0

\* One iteration: hash = ((hash << 5) - hash) + charCodeAt(i); hash = hash & hash
Hashed_Shift4(h, c) ==
  LET l    == Lo(h) * 16
      shi  == (Hi(h) * 16 + l \div Half) % Half
      d    == (l % Half) - Lo(h) + c
  IN ToInt32((shi - Hi(h) + d \div Half) % Half, d % Half)

Hashed(h, c) ==
  LET l    == Lo(h) * 32
      shi  == (Hi(h) * 32 + l \div Half) % Half    \* hash << 5, upper half
      d    == (l % Half) - Lo(h) + c               \* lower half, less hash, plus code
  IN ToInt32((shi - Hi(h) + d \div Half) % Half, d % Half)

\* offsetLngFactor, offsetLatFactor
OffsetLng(h) == 15 * Abs(Rem(h, 100)) + 500
OffsetLat(h) == 15 * Abs(Rem(Sar(h, 8), 100)) + 500

\* lngDirection, latDirection
LngDirection(h) == IF Rem(h, 2) = 0 THEN 1 ELSE -1
LatDirection(h) == IF Rem(Sar(h, 1), 2) = 0 THEN 1 ELSE -1

\* The returned pair
Destination(lng, lat, h) ==
  <<lng + OffsetLng(h) * LngDirection(h), lat + OffsetLat(h) * LatDirection(h)>>

GeoCall(p, n) ==
  [pickup |-> p, name |-> n, pc |-> "idle", i |-> 0, hash |-> 0, results |-> <<>>]

\* The caller invokes the function: the loop is entered
G_call ==
  /\ geo.pc = "idle" /\ Len(geo.results) < MaxCalls
  /\ geo' = [geo EXCEPT !.pc = "loop", !.i = 0, !.hash = StartHash(geo.hash)]
  /\ UNCHANGED <<viewVars, toasts, count, toastTimeouts, est>>

\* One iteration of the for loop
G_step ==
  /\ geo.pc = "loop" /\ geo.i < Len(geo.name)
  /\ geo' = [geo EXCEPT !.i = geo.i + 1, !.hash = Hashed(geo.hash, geo.name[geo.i + 1])]
  /\ UNCHANGED <<viewVars, toasts, count, toastTimeouts, est>>

\* The loop is left and the pair returned
G_return ==
  /\ geo.pc = "loop" /\ geo.i = Len(geo.name)
  /\ geo' = [geo EXCEPT !.pc = "idle",
                        !.results = Append(geo.results,
                                           Destination(geo.pickup[1], geo.pickup[2], geo.hash))]
  /\ UNCHANGED <<viewVars, toasts, count, toastTimeouts, est>>

InitGeo ==
  /\ NoViews /\ ToastIdle /\ est = <<>>
  /\ geo \in {GeoCall(p, n) : p \in Pickups, n \in Names}

NextGeo == G_call \/ G_step \/ G_return

SpecGeo == InitGeo /\ [][NextGeo]_vars

(***************************************************************************)
(* calculateFare (part_003 423-446; RideDetails.tsx 44-66; part_004        *)
(* 333-353).  The fare is computed with Math.sin, Math.cos, Math.sqrt and  *)
(* Math.atan2 on doubles.  Their values are not computed here: the sine    *)
(* and the cosine are tables chosen freely at the start, and the angle     *)
(* 2 * atan2(sqrt(a), sqrt(1 - a)) is chosen freely the first time a value *)
(* of a is met and is the same whenever that value is met again.  Only     *)
(* what the library fixes is built in: sin(0) = 0, sin(-x) = -sin(x),      *)
(* sqrt(0) = 0, sqrt(1) = 1 and atan2(0, 1) = 0.  The products and sums    *)
(* keep the order in which the code writes them.  Sines and cosines are    *)
(* counted in some fixed unit, the angle in thousandths of a radian.       *)
(***************************************************************************)

\* Bound: latitudes range over 0..MaxCoord degrees, longitudes over 0..1
MaxCoord == 2

\* A missing pickup or dropoff (the component variants read them from props)
NoPoint == <<>>

\* Points [lng, lat]
Points == {<<lng, lat>> : lng \in 0..1, lat \in 0..MaxCoord}

\* Values a sine of a positive difference, a cosine and the angle may take
SinVals == {-1, 0, 2}
CosVals == {1, 2}
ArcVals == {0, 1, 40}

\* The variants: the hook (base 20, 15 per km), the dashboard (12 per km, a
\* number) and the details card (12 per km, a label)
Policies == {"hook", "dashboard", "details"}

\* const R = 6371
R == 6371

\* baseFare and the rate per km of a variant
BaseFare(p) == IF p = "hook" THEN 20 ELSE 0
Rate(p) == IF p = "hook" THEN 15 ELSE 12

\* Math.sin(toRad(x) / 2) for a difference x of two coordinates
HalfSin_One(tab, x) == IF x = 0 THEN 1 ELSE IF x > 0 THEN tab[x] ELSE -tab[-x]

HalfSin(tab, x) == IF x = 0 THEN 0 ELSE IF x > 0 THEN tab[x] ELSE -tab[-x]

\* const a = sin(dLat/2) * sin(dLat/2) + cos(lat1) * cos(lat2) * sin(dLon/2) * sin(dLon/2)
HaversineA_Cos1(e, p, q) ==
  LET dLat == q[2] - p[2]
      dLon == q[1] - p[1]
  IN HalfSin(e.sin, dLat) * HalfSin(e.sin, dLat)
       + e.cos[p[2]] * e.cos[p[2]] * HalfSin(e.sin, dLon) * HalfSin(e.sin, dLon)

HaversineA(e, p, q) ==
  LET dLat == q[2] - p[2]
      dLon == q[1] - p[1]
  IN HalfSin(e.sin, dLat) * HalfSin(e.sin, dLat)
       + e.cos[p[2]] * e.cos[q[2]] * HalfSin(e.sin, dLon) * HalfSin(e.sin, dLon)

\* The values c = 2 * atan2(sqrt(a), sqrt(1 - a)) may take for a, given the
\* values already met
ArcOf(e, a) ==
  IF a = 0 THEN {0} ELSE IF a \in DOMAIN e.arc THEN {e.arc[a]} ELSE ArcVals

\* Math.round of x / 1000 for x >= 0
Round1000(x) == (x + 500) \div 1000

\* What the variant returns for the number fare: the details card returns the
\* label made of the rupee sign and the number
Returned(p, fare) == IF p = "details" THEN <<"Rs", fare>> ELSE fare

\* One call with pickup p and dropoff q, the angle being c: the distance in
\* metres and the returned fare
Fare(e, p, q, c) ==
  IF e.policy # "hook" /\ (p = NoPoint \/ q = NoPoint)
    THEN [from |-> p, to |-> q, distance |-> NULL, fare |-> Returned(e.policy, 0)]
    ELSE [from |-> p, to |-> q, distance |-> R * c,
          fare |-> Returned(e.policy, BaseFare(e.policy) + Round1000(R * c * Rate(e.policy)))]

Estimate(p, q, pol, s, c) ==
  [policy |-> pol, sin |-> s, cos |-> c, A |-> p, B |-> q,
   arc |-> <<>>, calls |-> <<>>]

\* The states in which a call with pickup p and dropoff q may leave the estimator
calculateFare(e, p, q) ==
  IF p = NoPoint \/ q = NoPoint
    THEN {[e EXCEPT !.calls = Append(@, Fare(e, p, q, 0))]}
    ELSE LET a == HaversineA(e, p, q) IN
         {[e EXCEPT !.arc = (a :> c) @@ @, !.calls = Append(@, Fare(e, p, q, c))] :
            c \in ArcOf(e, a)}

\* The fare from A to B is asked for
E_forward ==
  /\ Len(est.calls) < MaxCalls
  /\ est' \in calculateFare(est, est.A, est.B)
  /\ UNCHANGED <<viewVars, toasts, count, toastTimeouts, geo>>

\* The fare of the way back, from B to A, is asked for
E_backward ==
  /\ Len(est.calls) < MaxCalls
  /\ est' \in calculateFare(est, est.B, est.A)
  /\ UNCHANGED <<viewVars, toasts, count, toastTimeouts, geo>>

InitFare ==
  /\ NoViews /\ ToastIdle /\ geo = <<>>
  /\ est \in {Estimate(p, q, pol, s, c) :
                p \in Points \cup {NoPoint}, q \in Points \cup {NoPoint},
                pol \in Policies, s \in [1..MaxCoord -> SinVals],
                c \in [0..MaxCoord -> CosVals]}
  /\ est.policy = "hook" => est.A # NoPoint /\ est.B # NoPoint

NextFare == E_forward \/ E_backward

SpecFare == InitFare /\ [][NextFare]_vars



\* ----------------------------------------------------------- properties

\* C1: requestRide with the pickup or the dropoff unset leaves the rider
\* status idle and the current ride id null, issues no insert (no store
\* call is started, the table is unchanged) and emits only the Missing
\* Location notice.
C1_MissingLocation ==
  [][(requestRide /\ ~(pickup /\ dropoff)) =>
       /\ rideStatus' = "idle" /\ currentRideId' = NULL
       /\ rides' = rides /\ req' = NoCall
       /\ notice' = "Missing Location"]_vars

C1_Witness ==
  /\ mounted /\ notice = "Missing Location" /\ ~(pickup /\ dropoff)
  /\ rideStatus = "idle" /\ currentRideId = NULL /\ req = NoCall

\* C2: while the rider has no session, a request of a view that talks to the
\* store creates no record of this rider and the rider status never leaves
\* idle.
C2_NoSessionBlocks ==
  (~session /\ variant # "mock") =>
    /\ rideStatus = "idle"
    /\ \A i \in 1..Len(rides) : rides[i].rider_id # RiderId

\* C3: the insert of requestRide adds exactly one pending record of this
\* rider, and when its answer (the new row) is processed the rider status is
\* searching, the current ride id is the new record's id and a channel
\* filtered on that id is open.
C3_RequestSucceeds ==
  [][/\ (req.pc = "session" /\ req'.pc = "insert" /\ req'.res > 0) =>
          /\ rides' = Append(rides, Row(RiderId))
          /\ req'.res = Len(rides')
     /\ (req.pc = "insert" /\ req.res > 0 /\ req'.pc = "none" /\ mounted') =>
          /\ rideStatus' = "searching"
          /\ currentRideId' = req.res
          /\ \E c \in channels' : c.ride = req.res]_vars

\* C4: when the insert of requestRide fails, no record is added; the status,
\* set to searching when the insert was issued, goes back to idle; the
\* current ride id is not assigned; no channel is opened; the failure is
\* reported and no store call is left in flight.
C4_InsertFails ==
  [][/\ (req.pc = "session" /\ req'.pc = "insert" /\ mounted') =>
          /\ rideStatus' = "searching"
          /\ req'.res = -1 => rides' = rides
     /\ (req.pc = "insert" /\ req.res = -1 /\ req'.pc = "none" /\ mounted') =>
          /\ rideStatus' = "idle"
          /\ currentRideId' = currentRideId
          /\ channels' = channels
          /\ rides' = rides /\ req' = NoCall
          /\ notice' = "Failed to create ride request"]_vars

C4_Witness ==
  /\ mounted /\ notice = "Failed to create ride request"
  /\ rideStatus = "idle" /\ currentRideId = NULL /\ channels = {}
  /\ req = NoCall /\ \A i \in 1..Len(rides) : rides[i].rider_id # RiderId

\* C5: a driver's accept of the ride a mounted rider waits on in searching
\* reaches that rider. Stated on the states where nothing of the rider is
\* left to happen by itself: when the rider is still searching on a ride the
\* store holds as accepted, with its insert answered and its channel joined,
\* the accepted notification is still on its way.
C5_AcceptReachesRider ==
  (/\ mounted /\ rideStatus = "searching" /\ Quiet
   /\ currentRideId # NULL
   /\ rides[currentRideId].status = "accepted"
   /\ channels # {} /\ \A c \in channels : c.joined)
  => \E i \in 1..Len(feed) :
       feed[i] = [ride |-> currentRideId, status |-> "accepted"]

\* C6: the rider status becomes driverAssigned only in the step that
\* processes an accepted notification for the current ride, or in the step
\* of the mount effect that adopts a ride stored as accepted.
C6_DriverAssignedOnlyByStore ==
  [][(rideStatus' = "driverAssigned" /\ rideStatus # "driverAssigned") =>
       \/ /\ feed # <<>> /\ feed' = Tail(feed)
          /\ Head(feed) = [ride |-> currentRideId, status |-> "accepted"]
       \/ /\ resume.pc = "query" /\ resume'.pc = "none"
          /\ resume.st = "accepted"]_vars

\* C7: processing a cancelled notification in a non-idle status sets the
\* status to idle and the current ride id to null, emits the Ride Cancelled
\* notice, and leaves no channel of the view open on that ride.
C7_CancelledNotification ==
  [][(/\ feed # <<>> /\ feed' = Tail(feed) /\ mounted'
      /\ Head(feed).status = "cancelled"
      /\ \E c \in channels : c.ride = Head(feed).ride
      /\ rideStatus # "idle") =>
       /\ rideStatus' = "idle" /\ currentRideId' = NULL
       /\ notice' = "Ride Cancelled"
       /\ ~\E c \in channels' : c.ride = Head(feed).ride]_vars

\* C8: rider cancel with a ride id writes cancelled to that record and
\* changes neither the status nor the id before the answer: on success the
\* id becomes null and the status idle, on failure both stay and the
\* failure is reported. Without a ride id it sets the status to idle and
\* writes nothing.
C8_RiderCancel ==
  [][/\ (cancelRide /\ currentRideId # NULL) =>
          /\ rideStatus' = rideStatus /\ currentRideId' = currentRideId
          /\ \/ /\ rides' = [rides EXCEPT ![currentRideId].status = "cancelled"]
                /\ call'.pc = "cancel"
             \/ /\ rides' = rides /\ call' = NoCall
                /\ notice' = "Failed to cancel ride"
     /\ (cancelRide /\ currentRideId = NULL) =>
          /\ rideStatus' = "idle" /\ currentRideId' = NULL
          /\ rides' = rides /\ call' = NoCall
     /\ (call.pc = "cancel" /\ call'.pc = "none" /\ mounted') =>
          /\ rideStatus' = "idle" /\ currentRideId' = NULL
          /\ notice' = "Ride Cancelled"
          /\ rides' = rides]_vars

C8_Witness ==
  /\ mounted /\ notice = "Ride Cancelled" /\ call = NoCall /\ feed = <<>>
  /\ rideStatus = "idle" /\ currentRideId = NULL /\ channels = {}
  /\ \E i \in 1..Len(rides) :
       rides[i].rider_id = RiderId /\ rides[i].status = "cancelled"

C10_MountResume ==
  [][/\ (resume.pc = "session" /\ resume'.pc = "query") =>
          LET mine == {i \in 1..Len(rides) :
                         /\ rides[i].rider_id = RiderId
                         /\ rides[i].status \in {"pending", "accepted", "in_progress"}}
          IN /\ session
             /\ mine = {} => resume'.res = NULL
             /\ mine # {} =>
                  /\ resume'.res \in mine
                  /\ \A i \in mine : i <= resume'.res
                  /\ resume'.st = rides[resume'.res].status
     /\ (resume.pc = "query" /\ resume'.pc = "none" /\ mounted') =>
          IF resume.res = NULL
          THEN rideStatus' = "idle" /\ currentRideId' = NULL
          ELSE /\ currentRideId' = resume.res
               /\ resume.st = "pending" => rideStatus' = "searching"
               /\ resume.st = "accepted" => rideStatus' = "driverAssigned"
               /\ resume.st = "in_progress" => rideStatus' = "inProgress"]_vars

C10_Witness ==
  /\ mounted /\ resume = NoResume
  /\ Len(rides) >= 2 /\ currentRideId = 2
  /\ rides[1].rider_id = RiderId /\ rides[1].status = "pending"
  /\ rides[2].rider_id = RiderId /\ rides[2].status = "accepted"
  /\ rideStatus = "driverAssigned"
  /\ channels # {} /\ \A c \in channels : ~c.joined

\* C11: Going online without a session changes nothing but the notice: a
\* toggle by a driver who is offline and not signed in emits "Not logged
\* in", leaves isOnline false and the status offline, issues no fetch and
\* sets up neither the pending-rides channel nor the poll, and writes
\* nothing to the store.
C11_GoOnlineNeedsSession ==
  [][\A d \in DOMAIN drivers :
       (D_toggleDriverStatus /\ ~drivers[d].session /\ ~drivers[d].isOnline)
       => /\ notice' = "Not logged in"
          /\ ~drivers'[d].isOnline /\ drivers'[d].driverStatus = "offline"
          /\ drivers'[d].fetch = drivers[d].fetch
          /\ ~Subscribed(drivers'[d])
          /\ drivers' = drivers /\ rides' = rides]_vars

\* A mounted driver without a session, past its mount effect, offline and
\* just told that it is not logged in, with a ride waiting in the store.
C11_Witness ==
  \E d \in DOMAIN drivers :
    /\ drivers[d].mounted /\ ~drivers[d].session
    /\ drivers[d].resume.pc = "none"
    /\ ~drivers[d].isOnline /\ drivers[d].driverStatus = "offline"
    /\ rides # <<>> /\ notice = "Not logged in"

\* C12: A successful accept assigns the ride to the accepting driver. The
\* update of acceptRide, issued by a driver whose status is online on a
\* candidate of its list, leaves the row with this driver as driver_id,
\* status accepted and a driver location; when its answer is processed the
\* candidate list is empty, the accepted ride is the current ride and the
\* status is rideAccepted, with the notice "Ride Accepted".
C12_AcceptAssigns ==
  [][\A d \in DOMAIN drivers :
       /\ (drivers[d].call.pc = "none" /\ drivers'[d].call.pc = "accept")
          => /\ drivers[d].driverStatus = "online"
             /\ InSeq(drivers[d].rideRequests, drivers'[d].call.id)
             /\ rides'[drivers'[d].call.id].driver_id = d
             /\ rides'[drivers'[d].call.id].status = "accepted"
             /\ rides'[drivers'[d].call.id].driver_location
       /\ (drivers[d].call.pc = "accept" /\ drivers'[d].mounted
             /\ drivers'[d].call.pc = "none")
          => /\ drivers'[d].rideRequests = <<>>
             /\ drivers'[d].currentRideId = drivers[d].call.id
             /\ drivers'[d].driverStatus = "rideAccepted"
             /\ notice' = "Ride Accepted"]_vars

\* The answer of a successful accept has just been processed, and the row
\* still names the driver.
C12_Witness ==
  \E d \in DOMAIN drivers :
    /\ notice = "Ride Accepted"
    /\ drivers[d].driverStatus = "rideAccepted"
    /\ drivers[d].currentRideId # NULL
    /\ rides[drivers[d].currentRideId].driver_id = d
    /\ rides[drivers[d].currentRideId].status = "accepted"
    /\ Len(rides) = MaxRides

\* C13: Declining is local. A declineRide step removes exactly one
\* candidate from the driver's list and leaves the others in their order;
\* the status, isOnline, the current ride and everything in flight are
\* unchanged and the store is not written.
C13_DeclineIsLocal ==
  [][\A d \in DOMAIN drivers :
       (notice' = "Ride request declined" /\ drivers'[d] # drivers[d])
       => /\ \E i \in 1..Len(drivers[d].rideRequests) :
               drivers'[d].rideRequests =
                 SubSeq(drivers[d].rideRequests, 1, i - 1) \o
                 SubSeq(drivers[d].rideRequests, i + 1, Len(drivers[d].rideRequests))
          /\ drivers'[d] = [drivers[d] EXCEPT !.rideRequests = drivers'[d].rideRequests]
          /\ rides' = rides]_vars

\* One of two candidates has just been declined and the other is left.
C13_Witness ==
  \E d \in DOMAIN drivers :
    /\ notice = "Ride request declined"
    /\ Len(drivers[d].rideRequests) = 1
    /\ Len(PendingDesc(rides, Len(rides))) = 2
    /\ drivers[d].driverStatus = "online" /\ drivers[d].isOnline

\* C14: Each driver's view reflects what the store confirms. Once every
\* accept has been answered and every notification processed, a driver
\* whose status is rideAccepted or later with a ride as its current ride is
\* the driver the store records as that ride's driver_id.
C14_AcceptedDriverIsRecorded ==
  (\A d \in DOMAIN drivers :
     /\ drivers[d].call.pc = "none" /\ drivers[d].feed = <<>>
     /\ drivers[d].resume.pc = "none" /\ drivers[d].fetch.pc = "none")
  => \A d \in DOMAIN drivers :
       (/\ drivers[d].driverStatus \in {"rideAccepted", "inProgress", "completed"}
        /\ drivers[d].currentRideId # NULL)
       => rides[drivers[d].currentRideId].driver_id = d

\* C15: A cancellation resets the driver. When the driver view processes a
\* cancelled notification for its current ride, whatever its status, it
\* emits "Ride Cancelled", has no current ride afterwards, its status is
\* online and a fetch of the pending rides has been issued.
C15_CancellationResets ==
  [][\A d \in DOMAIN drivers :
       (D_onUpdate /\ drivers[d].feed # <<>> /\ Head(drivers[d].feed) = "cancelled")
       => /\ notice' = "Ride Cancelled"
          /\ drivers'[d].currentRideId = NULL
          /\ drivers'[d].driverStatus = "online"
          /\ drivers'[d].fetch = [pc |-> "query", list |-> PendingDesc(rides, Len(rides))]
          /\ rides' = rides]_vars

\* The cancellation has just been processed by a driver who had switched
\* itself offline during the ride.
C15_Witness ==
  \E d \in DOMAIN drivers :
    /\ notice = "Ride Cancelled"
    /\ drivers[d].currentRideId = NULL /\ drivers[d].driverStatus = "online"
    /\ drivers[d].fetch.pc = "query"
    /\ ~drivers[d].isOnline
    /\ \E i \in 1..Len(rides) : rides[i].status = "cancelled" /\ rides[i].driver_id = d

\* C16: Going offline is local and clears the candidates. A toggle by a
\* driver who is online, in whatever status, leaves the status offline,
\* isOnline false and the candidate list empty, and does not write to the
\* store.
C16_GoOfflineClears ==
  [][\A d \in DOMAIN drivers :
       (D_toggleDriverStatus /\ drivers[d].isOnline)
       => /\ drivers'[d].driverStatus = "offline"
          /\ ~drivers'[d].isOnline
          /\ drivers'[d].rideRequests = <<>>
          /\ rides' = rides]_vars

\* C17: Driver mount-resume. With a session, the query of the driver's
\* mount effect returns the latest created ride among those stored with
\* this driver as driver_id and status accepted or in_progress, and the view
\* adopts it: it is the current ride, isOnline is true and the status is
\* rideAccepted or inProgress for its stored status. When the query returns
\* none the status stays offline with no current ride.
C17_DriverMountResume ==
  [][\A d \in DOMAIN drivers :
       /\ (drivers[d].resume.pc = "session" /\ drivers'[d].resume.pc = "query") =>
            LET mine == {i \in 1..Len(rides) :
                           /\ rides[i].driver_id = d
                           /\ rides[i].status \in {"accepted", "in_progress"}}
            IN /\ drivers[d].session
               /\ mine = {} => drivers'[d].resume.res = NULL
               /\ mine # {} =>
                    /\ drivers'[d].resume.res \in mine
                    /\ \A i \in mine : i <= drivers'[d].resume.res
                    /\ drivers'[d].resume.st = rides[drivers'[d].resume.res].status
       /\ (drivers[d].resume.pc = "query" /\ drivers'[d].resume.pc = "none"
             /\ drivers'[d].mounted) =>
            IF drivers[d].resume.res = NULL
            THEN /\ drivers'[d].driverStatus = "offline" /\ ~drivers'[d].isOnline
                 /\ drivers'[d].currentRideId = NULL
            ELSE /\ drivers'[d].currentRideId = drivers[d].resume.res
                 /\ drivers'[d].isOnline
                 /\ drivers[d].resume.st = "accepted"
                      => drivers'[d].driverStatus = "rideAccepted"
                 /\ drivers[d].resume.st = "in_progress"
                      => drivers'[d].driverStatus = "inProgress"]_vars

\* A remounted driver with two rides of its own in the store, the older
\* accepted and the later in progress: its mount query has returned the
\* later one, which the view is about to adopt.
C17_Witness ==
  \E d \in DOMAIN drivers :
    /\ drivers[d].mounted /\ drivers[d].session
    /\ drivers[d].resume = [pc |-> "query", res |-> 2, st |-> "in_progress"]
    /\ Len(rides) >= 2
    /\ rides[1].driver_id = d /\ rides[1].status = "accepted"
    /\ rides[2].driver_id = d /\ rides[2].status = "in_progress"
    /\ drivers[d].currentRideId = NULL /\ drivers[d].driverStatus = "offline"

\* C18: A failed driver update is rolled back. When the update of
\* acceptRide, confirmPickup or completeRide reports an error, the step
\* that reports it emits the error notice and leaves the driver's status,
\* current ride, candidate list and the store as they were before the
\* attempt, with no call left in flight, so nothing is retried.
C18_FailedUpdateRolledBack ==
  [][\A d \in DOMAIN drivers :
       /\ (/\ \/ D_acceptRide \/ D_confirmPickup \/ D_completeRide
              \/ D_confirmPickup_write \/ D_completeRide_write
           /\ drivers[d].session
           /\ drivers'[d].call.pc = "none")
          => notice' \in {"Failed to accept ride", "Failed to update ride status",
                          "Failed to complete ride"}
       /\ notice' \in {"Failed to accept ride", "Failed to update ride status",
                        "Failed to complete ride"}
          => /\ drivers'[d].driverStatus = drivers[d].driverStatus
             /\ drivers'[d].currentRideId = drivers[d].currentRideId
             /\ drivers'[d].rideRequests = drivers[d].rideRequests
             /\ drivers'[d].call.pc = "none"
             /\ [drivers' EXCEPT ![d].call = drivers[d].call] = drivers
             /\ rides' = rides]_vars

\* confirmPickup has just failed: the driver is still in rideAccepted on
\* its ride, which the store still holds as accepted.
C18_Witness ==
  \E d \in DOMAIN drivers :
    /\ notice = "Failed to update ride status"
    /\ drivers[d].driverStatus = "rideAccepted"
    /\ drivers[d].currentRideId # NULL
    /\ rides[drivers[d].currentRideId].status = "accepted"
    /\ drivers[d].call = NoDriverCall

\* C19: Pending rides are eventually offered. While a driver is online
\* with the status online, a ride that is pending in the store and missing
\* from the driver's candidate list is on its way into the list: a fetch
\* or a pending-rides notification is in flight, or else the poll timer is
\* armed and will fetch it, whatever happened to the notifications.
C19_PendingReachesCandidates ==
  \A d \in DOMAIN drivers : \A id \in 1..Len(rides) :
    (/\ Subscribed(drivers[d])
     /\ rides[id].status = "pending" /\ ~InSeq(drivers[d].rideRequests, id)
     /\ drivers[d].fetch.pc = "none" /\ ~drivers[d].ping)
    => ENABLED D_poll

\* The interval's callback with its query issued: the timer fires every
\* 10 s for as long as the effect is set up, and a query is answered.
D_pollFetches ==
  \E d \in DOMAIN drivers :
    /\ Subscribed(drivers[d]) /\ drivers[d].view # "nopoll"
    /\ drivers' = [drivers EXCEPT ![d] = Fetching(drivers[d])]
    /\ notice' = "none"
    /\ UNCHANGED <<rides, riderView>>

SpecDriverFair ==
  /\ InitDriver /\ [][NextDriver]_vars
  /\ WF_vars(D_pollFetches) /\ WF_vars(D_fetchAvailableRides_done)

\* On the dashboards with the poll, a ride that stays pending while the
\* driver stays online is in the candidate list again and again, with every
\* notification lost. Holds under SpecDriverFair.
PolledPendingOffered ==
  \A d \in {DriverId} : \A id \in 1..MaxRides :
    <>[](/\ id <= Len(rides) /\ rides[id].status = "pending"
         /\ Subscribed(drivers[d]) /\ drivers[d].view # "nopoll")
    => []<>InSeq(drivers[d].rideRequests, id)

\* C20: The store's reported status is authoritative. Whenever the driver
\* view processes a notification for its current ride, its status
\* afterwards is the image of the reported status, whatever it was before:
\* inProgress for in_progress, completed for completed, online for
\* cancelled.
C20_ReportedStatusWins ==
  [][\A d \in DOMAIN drivers :
       (D_onUpdate /\ drivers[d].feed # <<>>)
       => /\ Head(drivers[d].feed) = "in_progress"
               => drivers'[d].driverStatus = "inProgress"
          /\ Head(drivers[d].feed) = "completed"
               => drivers'[d].driverStatus = "completed"
          /\ Head(drivers[d].feed) = "cancelled"
               => drivers'[d].driverStatus = "online"]_vars

\* C21: No subscription outlives its ride or its view. Once the rider view
\* has unmounted none of its channels is left, and every channel a mounted
\* view has open is for its current ride: when a ride has been cancelled
\* (the view has no current ride) or replaced, its channel is gone, also
\* when the ride was adopted by the mount effect.
C21_NoLeakedSubscription ==
  /\ ~mounted => channels = {}
  /\ \A c \in channels : c.ride = currentRideId

\* C22: completed and cancelled are terminal. Once the store holds a ride
\* as completed or cancelled, no step of a driver or a rider changes that
\* ride's status.
C22_TerminalStatusStays ==
  [][\A id \in 1..Len(rides) :
       rides[id].status \in {"completed", "cancelled"}
       => rides'[id].status = rides[id].status]_vars

\* C23: The toast queue holds at most TOAST_LIMIT toasts. Adding a toast
\* puts it at the end of the queue; the queue is then the old queue with
\* the new toast, cut at the front to the TOAST_LIMIT most recently added,
\* in the order they were added.
C23_ToastCapacity ==
  [][/\ Len(toasts') <= TOAST_LIMIT
     /\ count' # count =>
          LET n == Len(toasts')
              k == Len(toasts) + 1 - n
          IN /\ n = IF Len(toasts) + 1 <= TOAST_LIMIT THEN Len(toasts) + 1 ELSE TOAST_LIMIT
             /\ toasts'[n] = [id |-> count', open |-> TRUE]
             /\ \A i \in 1..(n - 1) : toasts'[i] = toasts[i + k]
             /\ \A i \in 1..(n - 1) : toasts'[i].id < toasts'[i + 1].id]_vars

\* Seven toasts were added and none removed: the queue holds the last five.
C23_Witness ==
  /\ count = TOAST_LIMIT + 2
  /\ Len(toasts) = TOAST_LIMIT
  /\ toasts[1].id = 3 /\ toasts[TOAST_LIMIT].id = count

\* C24: A dismissed toast is removed by its removal timer and by nothing
\* else. A toast of the queue that is marked dismissed (open = FALSE) is
\* gone after a step only if that step is the firing of the removal timer
\* set for it; until then no other operation removes it.
C24_DismissedRemovedByTimerOnly ==
  [][\A i \in 1..Len(toasts) :
       (~toasts[i].open /\ toasts[i].id \notin ToastIds(toasts'))
       => /\ toasts[i].id \in toastTimeouts
          /\ toasts[i].id \notin toastTimeouts']_vars

\* C24 as amended: a toast leaves the queue only by the firing of the
\* removal timer set for it at its dismissal, or as the oldest toast of a
\* full queue when a toast is added; the firing of its timer removes it, and
\* dismissing it keeps it in the queue, marked, with its timer set.
C24_DismissedRemovedByTimerOrOverflow ==
  [][/\ \A i \in 1..Len(toasts) :
          toasts[i].id \notin ToastIds(toasts')
          => \/ /\ toasts[i].id \in toastTimeouts
                /\ toasts[i].id \notin toastTimeouts'
                /\ ~toasts[i].open
             \/ /\ count' = count + 1
                /\ Len(toasts) = TOAST_LIMIT /\ i = 1
     /\ \A id \in toastTimeouts \ toastTimeouts' : id \notin ToastIds(toasts')
     /\ \A id \in toastTimeouts' \ toastTimeouts :
          \A i \in 1..Len(toasts') : toasts'[i].id = id => ~toasts'[i].open]_vars

\* Two toasts were added, the first was dismissed and its timer has fired:
\* the second, still open, is alone in the queue and no timer is pending.
C24_Witness ==
  /\ count = 2
  /\ toasts = <<[id |-> 2, open |-> TRUE]>>
  /\ toastTimeouts = {}

Times31Plus(h, c) ==
  LET l == Lo(h) * 31 + c
  IN ToInt32((Hi(h) * 31 + l \div Half) % Half, l % Half)

RECURSIVE Fold31(_)
Fold31(n) ==
  IF n = <<>> THEN 0 ELSE Times31Plus(Fold31(SubSeq(n, 1, Len(n) - 1)), n[Len(n)])

\* Bit k of a signed 32-bit value in two's complement
Bit(h, k) == (h \div (2 ^ k)) % 2

\* C26: throughout the loop the hash is the fold hash * 31 + code over the
\* characters read so far, wrapped to a signed 32-bit value, starting from 0;
\* every returned coordinate lies at an offset of at least 0.005 and less than
\* 0.02 degree from the pickup coordinate, the longitude above it exactly when
\* bit 0 of the hash is clear and the latitude above it exactly when bit 1 is.
C26_HashAndOffsets ==
  /\ geo # <<>> /\ (geo.pc = "loop" \/ geo.results # <<>>)
       => geo.hash = Fold31(SubSeq(geo.name, 1, geo.i))
  /\ geo # <<>> =>
       \A k \in 1..Len(geo.results) :
         LET h    == Fold31(geo.name)
             dLng == geo.results[k][1] - geo.pickup[1]
             dLat == geo.results[k][2] - geo.pickup[2]
         IN /\ Abs(dLng) >= 500 /\ Abs(dLng) < 2000
            /\ Abs(dLat) >= 500 /\ Abs(dLat) < 2000
            /\ dLng > 0 <=> Bit(h, 0) = 0
            /\ dLat > 0 <=> Bit(h, 1) = 0

\* The first call has returned for a name of three characters or more whose
\* hash is negative and has bit 0 set and bit 1 clear.
C26_Witness ==
  /\ Len(geo.results) = 1 /\ Len(geo.name) >= 3
  /\ geo.hash < 0 /\ Bit(geo.hash, 0) = 1 /\ Bit(geo.hash, 1) = 0
  /\ geo.results[1][1] < geo.pickup[1] /\ geo.results[1][2] > geo.pickup[2]

\* C27: a call of the fare estimator with the same point as pickup and as
\* dropoff computes the distance 0 and returns the base fare of its variant:
\* 20 where the base is 20 and the rate 15, and 0 (as the number, or as the
\* label of the number) where the rate is 12.
C27_SamePointBaseFare ==
  est # <<>> =>
    \A k \in 1..Len(est.calls) :
      est.calls[k].from = est.calls[k].to /\ est.calls[k].from # NoPoint
        => /\ est.calls[k].distance = 0
           /\ est.policy = "hook" => est.calls[k].fare = 20
           /\ est.policy = "dashboard" => est.calls[k].fare = 0
           /\ est.policy = "details" => est.calls[k].fare = <<"Rs", 0>>

\* The variant with the base fare has been asked twice for the fare from a
\* point away from the origin to itself, the sines of the table being non-zero.
C27_Witness ==
  /\ est # <<>> /\ est.policy = "hook" /\ Len(est.calls) = 2
  /\ est.A = <<1, 2>> /\ est.B = est.A
  /\ \A x \in DOMAIN est.sin : est.sin[x] # 0

\* C28: the fare estimator is symmetric: of two calls of which one has for
\* pickup the dropoff of the other and for dropoff its pickup, both return
\* the same fare.
C28_FareSymmetric ==
  est # <<>> =>
    \A i, j \in 1..Len(est.calls) :
      est.calls[i].from = est.calls[j].to /\ est.calls[i].to = est.calls[j].from
        => est.calls[i].fare = est.calls[j].fare

\* The fare between two points of different latitude and longitude has been
\* asked for both ways, and it exceeds the base fare.
C28_Witness ==
  /\ est # <<>> /\ est.policy = "hook" /\ Len(est.calls) = 2
  /\ est.A # NoPoint /\ est.B # NoPoint
  /\ est.A[1] # est.B[1] /\ est.A[2] # est.B[2]
  /\ est.cos[est.A[2]] # est.cos[est.B[2]]
  /\ est.calls[1].from = est.A /\ est.calls[2].from = est.B
  /\ est.calls[1].fare > 20

\* C29: when the rider's cancel takes the view to idle, the record of the
\* request it cancels is not pending, whether the view holds its id or the
\* insert is still in flight; and an idle view with no current ride id keeps
\* its null id for as long as it stays idle.
C29_CancelLeavesNothing ==
  [][/\ ((cancelRide \/ cancelRide_done) /\ rideStatus # "idle" /\ rideStatus' = "idle") =>
          /\ currentRideId' = NULL
          /\ currentRideId # NULL => rides'[currentRideId].status # "pending"
          /\ req.pc = "insert" /\ req.res > 0 => rides'[req.res].status # "pending"
     /\ (mounted /\ mounted' /\ rideStatus = "idle" /\ rideStatus' = "idle"
           /\ currentRideId = NULL) => currentRideId' = NULL]_vars

\* C30: a mounted driver view whose status is rideAccepted, inProgress or
\* completed has a current ride: its current ride id is not null.
C30_BusyDriverHasRide ==
  \A d \in DOMAIN drivers :
    drivers[d].mounted /\ drivers[d].driverStatus \in {"rideAccepted", "inProgress", "completed"}
      => drivers[d].currentRideId # NULL

\* C31: no driver is recorded in the store as the driver of two rides that
\* are both accepted or in progress.
C31_OneActiveRidePerDriver ==
  \A i, j \in 1..Len(rides) :
    /\ i # j
    /\ rides[i].driver_id # NoDriver /\ rides[i].driver_id = rides[j].driver_id
    /\ rides[i].status \in {"accepted", "in_progress"}
    => rides[j].status \notin {"accepted", "in_progress"}

\* C32: in every mounted driver view isOnline is true exactly when the driver
\* status is not offline.
C32_OnlineFlagMatchesStatus ==
  \A d \in DOMAIN drivers :
    drivers[d].mounted => (drivers[d].isOnline <=> drivers[d].driverStatus # "offline")

\* C33: the candidate list of a mounted driver view is empty whenever its
\* status is not online.
C33_CandidatesOnlyOnline ==
  \A d \in DOMAIN drivers :
    drivers[d].mounted /\ drivers[d].driverStatus # "online"
      => drivers[d].rideRequests = <<>>

\* C34: the pending-rides subscription and the poll timer of a driver view are
\* active exactly while the view is mounted with isOnline true and the status
\* online: in that state the timer is armed and a new pending ride is notified,
\* outside it no notification is waiting to be handled and the timer is not
\* armed, and every poll or notification that is handled is handled in it.
C34_ListeningExactlyWhileOnline ==
  [][/\ \A d \in DOMAIN drivers : drivers[d].ping => Subscribed(drivers[d])
     /\ (\E d \in DOMAIN drivers : Subscribed(drivers[d])) <=> ENABLED D_poll
     /\ \A d \in DOMAIN drivers :
          (D_poll \/ D_onPending) /\ drivers'[d] # drivers[d] => Subscribed(drivers[d])
     /\ \A d \in DOMAIN drivers :
          R_insert /\ Subscribed(drivers[d]) => drivers'[d].ping]_vars

\* C35: closing one toast through its own handle closes that toast alone: all
\* other toasts of the queue keep their open flag and get no removal timer.
C35_CloseOneToast ==
  [][T_dismissAll =>
       \E i \in 1..Len(toasts) :
         \A j \in 1..Len(toasts) :
           j # i => /\ toasts'[j] = toasts[j]
                    /\ toasts[j].id \in toastTimeouts' => toasts[j].id \in toastTimeouts]_vars

\* C36: no rider view ever has the status enRoute or arrived and no driver
\* view the status pickingUp; hence the rider's Confirm Pickup, offered only
\* in enRoute, is never offered and the rider's confirmPickup never runs.
C36_UnusedStatuses ==
  /\ rideStatus \notin {"enRoute", "arrived"}
  /\ driverStatus # "pickingUp"
  /\ \A d \in DOMAIN drivers : drivers[d].driverStatus # "pickingUp"
  /\ ~(mounted /\ ConfirmPickupOffered)
  /\ ~ENABLED confirmPickup

\* The rider view shows an assigned driver for a ride the store holds as
\* accepted, the state before the pickup, and no call is in flight.
C36_Witness ==
  /\ mounted /\ Quiet /\ rideStatus = "driverAssigned"
  /\ currentRideId # NULL /\ rides[currentRideId].status = "accepted"
  /\ driverStatus = "rideAccepted" /\ driverRideId = currentRideId

\* ------------------------------------------ simulated driver dashboard

\* DriverDashboard.tsx keeps everything in useState and in setTimeouts; it
\* talks to no store.

\* setTimeouts pending in one run of the model
MaxTimeouts == 8

\* generateRideRequests: the two fixed requests r1 and r2
NewRequests == <<"r1", "r2">>

\* useState of DriverDashboard before any handler has run, with the
\* setTimeouts it has pending.
SimView ==
  [view |-> "simulated", mounted |-> FALSE, isOnline |-> FALSE,
   driverStatus |-> "offline", rideRequests |-> <<>>, currentRide |-> "none",
   timeouts |-> <<>>]

\* The driverStatus a callback created in this render closes over: the
\* value of the render in which the handler was created, not the value the
\* handler sets.
Captured(r) == r.driverStatus

\* setTimeout(() => { if (driverStatus === "online") generateRideRequests() }, ms)
\* set by the instance that is mounted now.
Timeout(r, ms) == [ms |-> ms, driverStatus |-> Captured(r), live |-> TRUE]

\* Timers of the same delay fire in the order they were set, and a shorter
\* one set later may fire before a longer one.
Fireable(q, i) == \A j \in 1..(i - 1) : q[j].ms > q[i].ms

Without(q, i) == SubSeq(q, 1, i - 1) \o SubSeq(q, i + 1, Len(q))

\* The dashboard mounts with its initial useState values.
S_Mount ==
  \E d \in DOMAIN drivers :
    /\ ~drivers[d].mounted
    /\ drivers' = [drivers EXCEPT ![d].mounted = TRUE]
    /\ notice' = "none"
    /\ UNCHANGED <<rides, riderView>>

\* The dashboard unmounts: its state is gone; no timeout is cleared, and
\* the ones pending will set the state of an instance that is gone.
S_Unmount ==
  \E d \in DOMAIN drivers :
    /\ drivers[d].mounted
    /\ drivers' = [drivers EXCEPT ![d] =
         [SimView EXCEPT !.timeouts =
            [i \in 1..Len(drivers[d].timeouts) |->
               [drivers[d].timeouts[i] EXCEPT !.live = FALSE]]]]
    /\ notice' = "none"
    /\ UNCHANGED <<rides, riderView>>

\* toggleDriverStatus: the Switch is rendered in every status.
S_toggleDriverStatus ==
  \E d \in DOMAIN drivers :
    /\ drivers[d].mounted
    /\ IF ~drivers[d].isOnline
       THEN /\ Len(drivers[d].timeouts) < MaxTimeouts
            /\ notice' = "You're Online"
            /\ drivers' = [drivers EXCEPT
                 ![d].isOnline = TRUE,
                 ![d].driverStatus = "online",
                 ![d].timeouts = Append(@, Timeout(drivers[d], 3000))]
       ELSE /\ notice' = "You're Offline"
            /\ drivers' = [drivers EXCEPT
                 ![d].isOnline = FALSE,
                 ![d].driverStatus = "offline",
                 ![d].rideRequests = <<>>]
    /\ UNCHANGED <<rides, riderView>>

\* A timeout fires: its callback generates the requests if the status it
\* closed over is online.
S_timeout ==
  \E d \in DOMAIN drivers :
    \E i \in 1..Len(drivers[d].timeouts) :
      /\ Fireable(drivers[d].timeouts, i)
      /\ drivers' = [drivers EXCEPT
           ![d].timeouts = Without(@, i),
           ![d].rideRequests =
              IF /\ drivers[d].timeouts[i].driverStatus = "online"
                 /\ drivers[d].timeouts[i].live
              THEN NewRequests ELSE @]
      /\ notice' = "none"
      /\ UNCHANGED <<rides, riderView>>

\* acceptRide(ride) on a request of the list, rendered while online
S_acceptRide ==
  \E d \in DOMAIN drivers :
    /\ drivers[d].mounted /\ drivers[d].driverStatus = "online"
    /\ \E i \in 1..Len(drivers[d].rideRequests) :
         drivers' = [drivers EXCEPT
           ![d].currentRide = drivers[d].rideRequests[i],
           ![d].rideRequests = <<>>,
           ![d].driverStatus = "rideAccepted"]
    /\ notice' = "Ride Accepted"
    /\ UNCHANGED <<rides, riderView>>

\* declineRide(rideId): declining the last request of the list sets a 5 s
\* timeout.
S_declineRide ==
  \E d \in DOMAIN drivers :
    /\ drivers[d].mounted /\ drivers[d].driverStatus = "online"
    /\ \E i \in 1..Len(drivers[d].rideRequests) :
         /\ Len(drivers[d].rideRequests) = 1 => Len(drivers[d].timeouts) < MaxTimeouts
         /\ drivers' = [drivers EXCEPT
              ![d].rideRequests = Without(@, i),
              ![d].timeouts = IF Len(drivers[d].rideRequests) = 1
                              THEN Append(@, Timeout(drivers[d], 5000)) ELSE @]
    /\ notice' = "Ride request declined"
    /\ UNCHANGED <<rides, riderView>>

\* The buttons of the current ride: Confirm Pickup, Complete Ride and Find
\* New Rides, which generates the requests at once.
S_rideButton ==
  \E d \in DOMAIN drivers :
    /\ drivers[d].mounted /\ drivers[d].currentRide # "none"
    /\ \/ /\ drivers[d].driverStatus = "rideAccepted"
          /\ drivers' = [drivers EXCEPT ![d].driverStatus = "inProgress"]
       \/ /\ drivers[d].driverStatus = "inProgress"
          /\ drivers' = [drivers EXCEPT ![d].driverStatus = "completed"]
       \/ /\ drivers[d].driverStatus = "completed"
          /\ drivers' = [drivers EXCEPT ![d].currentRide = "none",
                                        ![d].driverStatus = "online",
                                        ![d].rideRequests = NewRequests]
    /\ notice' = "none"
    /\ UNCHANGED <<rides, riderView>>

\* One simulated dashboard and nothing else.
InitSim ==
  /\ rides = <<>> /\ session = FALSE /\ variant = "actions"
  /\ mounted = FALSE
  /\ rideStatus = "idle" /\ currentRideId = NULL
  /\ pickup = FALSE /\ dropoff = FALSE
  /\ channels = {} /\ feed = <<>>
  /\ req = NoCall /\ call = NoCall /\ resume = NoResume
  /\ timers = 0
  /\ notice = "none"
  /\ isOnline = FALSE /\ driverStatus = "offline"
  /\ rideRequests = <<>> /\ driverRideId = NULL
  /\ drivers = [d \in {DriverId} |-> SimView]
  /\ UtilIdle

\* What the dashboard can do from its initial state.
NextSim == S_Mount \/ S_Unmount \/ S_toggleDriverStatus \/ S_timeout

SpecSim == InitSim /\ [][NextSim]_vars

\* A timeout that is pending fires after its delay.
SpecSimFair == SpecSim /\ WF_vars(S_timeout)

\* With the handlers that need a request in the list.
NextSimAll == NextSim \/ S_acceptRide \/ S_declineRide \/ S_rideButton

SpecSimAll == InitSim /\ [][NextSimAll]_vars

\* The list of the simulated dashboard is empty in every state; holds under
\* SpecSimAll, so the handlers of NextSimAll that NextSim leaves out never
\* run.
SimListEmpty == \A d \in DOMAIN drivers : drivers[d].rideRequests = <<>>

\* C37: on the simulated dashboard, a driver who goes online and stays
\* online eventually has a candidate list that is not empty.
C37_OnlineGetsCandidates ==
  \A d \in {DriverId} :
    <>[](drivers[d].mounted /\ drivers[d].isOnline)
      => <>(drivers[d].rideRequests # <<>>)

====
